---- MODULE Spec2Model ----
(***************************************************************************)
(* Model of the device API clients of Nokia_FastMile_HACS:                 *)
(*   - the reboot command issuers of the cellular gateway                  *)
(*     (custom_components/nokia_fastmile/nokia_api.py,                     *)
(*      nokia_fastmile_reboot.py, nokia_fastmile_monitor.py);              *)
(*   - its login, status reads and payload encryption (nokia_api.py);      *)
(*   - the PoE controller client                                           *)
(*     (custom_components/unifi_poe/unifi_api.py) and the entities that    *)
(*     call it (switch.py, button.py).                                     *)
(* The device and the controller are the environment: every answer they    *)
(* can give to a request is a nondeterministic input of the step that      *)
(* sends the request.                                                      *)
(***************************************************************************)
EXTENDS Integers, Sequences, FiniteSets, TLC

VARIABLES
    \* ---- cellular gateway: one reboot operation at a time (blocking client)
    impl,           \* which operation runs: reboot_device of "api", "script" or
                    \* "monitor"; a status read of "api_status" or "monitor_status"
    pc,             \* position inside the running operation
    posts,          \* the requests sent by the running operation, with their outcomes
    result,         \* what the operation returned ("none": not yet)
    session_id,     \* NokiaFastMileAPI._session_id ("none" = None)
    cookie_sid,     \* 'sid' in NokiaFastMileAPI.session.cookies
    shared_secret,  \* NokiaFastMileAPI._shared_secret ("none" = None)
    calls,          \* operations of the cellular clients started so far
    ensured,        \* _ensure_session calls made by the running operation
    logged_in,      \* what the last NokiaFastMileAPI._login returned ("none": not called)
    \* ---- PoE controller and its client
    ctl,            \* the controller: the device record it serves
    cache,          \* per client instance: UniFiAPI._devices_cache
    tpc,            \* per task: position inside the running coroutine
    top,            \* per task: the operation and its arguments
    loc,            \* per task: the coroutine's local variables
    req,            \* per task: the HTTP request in flight (or NoReq)
    resp,           \* per task: the controller's answer not yet consumed (or NoResp)
    tlog,           \* per task: the calls and requests made by the running operation
    tres,           \* per task: outcome of the operation
    ops,            \* PoE operations started so far
    \* ---- pure functions applied to drawn inputs
    mac_arg,        \* a device_mac argument, as the caller spells it
    mac_key,        \* per method: the mac_normalized it computed (or NoKey)
    mac_again,      \* get_device_by_mac's key of an already normalized MAC (or NoKey)
    crypto_secret,  \* per client: NokiaFastMileAPI._shared_secret
    crypto_msg,     \* an encrypted message (ct, ck), or NoMsg
    crypto_out,     \* per client: what _decrypt_response returned for crypto_msg
    \* ---- status accessors of the cellular client
    st_call,        \* the accessor called ("none": not yet)
    st_gets,        \* what each get_prelogin_status of the call returned, in order
    st_ret,         \* what the accessor returned
    \* ---- format_uptime applied to a drawn number of seconds
    seconds,        \* the argument
    up_impl,        \* whose format_uptime ran: "sensor" or "monitor" ("none": not yet)
    up_text,        \* the text it returned
    \* ---- PoE config flow: port selection
    poe_port,       \* a discovered PoE port: device MAC, port index, port name
    device_port,    \* the option value built for it (or NoText)
    flow_data,      \* what async_step_device stored for the selected value
    \* ---- PoE switch entity
    previous_mode,    \* UniFiPoESwitch._previous_mode
    coordinator_data, \* coordinator.data as the entity sees it
    sw_writes,        \* the set_port_poe_mode calls the entity made, in order
    sw_seen           \* the last poe_mode other than "off" that is_on read ("none": none yet)

nokiaVars == <<impl, pc, posts, result, session_id, cookie_sid, shared_secret, calls,
              ensured, logged_in>>
poeVars   == <<ctl, cache, tpc, top, loc, req, resp, tlog, tres, ops>>
macVars   == <<mac_arg, mac_key, mac_again>>
cryptoVars == <<crypto_secret, crypto_msg, crypto_out>>
statusVars == <<st_call, st_gets, st_ret>>
uptimeVars == <<seconds, up_impl, up_text>>
flowVars   == <<poe_port, device_port, flow_data>>
switchVars == <<previous_mode, coordinator_data, sw_writes, sw_seen>>
restVars   == <<statusVars, uptimeVars, flowVars, switchVars>>
vars      == <<nokiaVars, poeVars, macVars, cryptoVars, restVars>>

(***************************************************************************)
(* Bounds of the model.                                                    *)
(***************************************************************************)
MaxCalls == 2       \* reboot operations per behaviour
MaxOps   == 2       \* PoE operations per behaviour
NumPorts == 2       \* ports of the modelled switch

(***************************************************************************)
(* PART 1.  Reboot command issuers of the cellular gateway.                *)
(***************************************************************************)
EpLogin       == "login_web_app.cgi"
EpReboot      == "reboot_web_app.cgi"
EpCommand     == "command_web_app.cgi"
EpMaintenance == "maintenance_web_app.cgi"

\* HTTP statuses the device may answer with, and the kinds of response text the
\* code distinguishes: the encrypted marker, a 'success'/'reboot' text, neither.
Statuses == {200, 202, 204, 404, 500}
Bodies   == {"encrypted=1", "success", "other"}

\* requests.exceptions: Timeout, ConnectionError, and any other RequestException
\* (TooManyRedirects, ChunkedEncodingError, ...).
Exceptions == {"Timeout", "ConnectionError", "RequestException"}

Response(s, b) == [kind |-> "response", status |-> s, body |-> b]
Raised(e)      == [kind |-> e, status |-> 0, body |-> ""]
Outcomes == {Response(s, b) : s \in Statuses, b \in Bodies} \cup {Raised(e) : e \in Exceptions}

Post(ep, o) == [ep |-> ep, out |-> o]

\* The reboot POSTs of the running operation (the login POST left out).
IsRebootPost(p) == p.ep # EpLogin
RebootPosts == SelectSeq(posts, IsRebootPost)

\* ---- NokiaFastMileAPI.reboot_device: the success tests
\* primary endpoint: the text is inspected, every branch returns True
ApiPrimaryAcceptedBodyBug(o) ==
    o.status = 200 /\ (o.body = "encrypted=1" \/ o.body = "success")
ApiPrimaryAccepted(o) ==
    IF o.status = 200
    THEN IF o.body = "encrypted=1" THEN TRUE
         ELSE IF o.body = "success" THEN TRUE
         ELSE TRUE
    ELSE FALSE

ApiCommandAcceptedBug(o) == o.status = 200
ApiCommandAccepted(o) == o.status \in {200, 202, 204}

ApiMaintenanceAccepted(o) == o.status \in {200, 202, 204}

\* the except clauses of reboot_device, in their order
ApiOnExceptionAllFalseBug(e) == "False"
ApiOnExceptionTimeoutOnlyBug(e) ==
    IF e = "Timeout" THEN "True" ELSE "False"
ApiOnException(e) ==
    IF e = "Timeout" THEN "True"
    ELSE IF e = "ConnectionError" THEN "True"
    ELSE "False"

\* ---- nokia_fastmile_reboot.reboot_device: the success tests
ScriptPrimaryAccepted(o) ==
    IF o.status = 200
    THEN IF o.body = "encrypted=1" THEN TRUE ELSE TRUE
    ELSE FALSE
ScriptCommandAccepted(o) == o.status \in {200, 202, 204}
ScriptMaintenanceAccepted(o) == o.status \in {200, 202, 204}
ScriptOnException(e) ==
    IF e = "Timeout" THEN "True"
    ELSE IF e = "ConnectionError" THEN "True"
    ELSE "False"

\* ---- NokiaFastMileMonitor.reboot_device
MonitorAccepted(o) == o.status \in {200, 202, 204}
MonitorOnException(e) == "False"

\* ---- NokiaFastMileAPI._login: what a login answer may carry
LoginBodies == {"nonjson", "json", "json_pubkey", "json_sid", "json_pubkey_sid"}
HasPubkey(b) == b \in {"json_pubkey", "json_pubkey_sid"}
HasSid(b)    == b \in {"json_sid", "json_pubkey_sid"}
LoginStatuses == {200, 401}
LoginAnswers ==
    {[kind |-> "response", status |-> s, body |-> b, setsCookie |-> c] :
        s \in LoginStatuses, b \in LoginBodies, c \in BOOLEAN}
    \cup {[kind |-> e, status |-> 0, body |-> "", setsCookie |-> FALSE] : e \in Exceptions}

LoginLogged(a) == Post(EpLogin, [kind |-> a.kind, status |-> a.status, body |-> a.body])

NokiaInit ==
    /\ impl = "none"
    /\ pc = "idle"
    /\ posts = <<>>
    /\ result = "none"
    /\ session_id = "none"
    /\ cookie_sid = FALSE
    /\ shared_secret = "none"
    /\ calls = 0
    /\ ensured = 0
    /\ logged_in = "none"

\* _ensure_session: "if self._session_id: return True", else _login runs.
EnsureSessionLogsInBug(sid) == TRUE
EnsureSessionLogsIn(sid) == ~(sid # "none")

\* _login: True on HTTP 200 (with a session cookie, a sid in the body, or
\* neither), False on any other status and on a request exception.
LoginReturns(a) ==
    IF a.kind = "response" /\ a.status = 200 THEN "True" ELSE "False"

\* A reboot_device call begins.  NokiaFastMileAPI.reboot_device first runs
\* _ensure_session, once, which logs in only when no session id is stored.
ApiRebootCall ==
    /\ pc \in {"idle", "done"}
    /\ calls < MaxCalls
    /\ calls' = calls + 1
    /\ impl' = "api"
    /\ posts' = <<>>
    /\ result' = "none"
    /\ ensured' = 1
    /\ pc' = IF EnsureSessionLogsIn(session_id) THEN "login" ELSE "primary"
    /\ UNCHANGED <<session_id, cookie_sid, shared_secret, logged_in,
                   poeVars, macVars, cryptoVars, restVars>>

\* reboot_device after _ensure_session returned ok: a failure is logged
\* ("trying without session") and the primary endpoint comes next either way.
ApiAfterEnsureSessionAbortBug(ok) == IF ok = "False" THEN "done" ELSE "primary"
ApiAfterEnsureSession(ok) == IF ok = "False" THEN "primary" ELSE "primary"

\* NokiaFastMileAPI._login, reached from _ensure_session: one login POST.  Its
\* return value is only logged by reboot_device, which goes on to the primary
\* endpoint whatever it is.
ApiLogin ==
    /\ impl = "api" /\ pc = "login"
    /\ \E a \in LoginAnswers :
        LET jar == cookie_sid \/ (a.kind = "response" /\ a.setsCookie) IN
        /\ posts' = Append(posts, LoginLogged(a))
        /\ cookie_sid' = IF a.kind = "response"
                         THEN (jar \/ (a.status = 200 /\ HasSid(a.body)))
                         ELSE cookie_sid
        /\ session_id' =
             IF a.kind = "response" /\ a.status = 200
             THEN IF jar THEN "cookie"
                  ELSE IF HasSid(a.body) THEN "body"
                  ELSE session_id
             ELSE session_id
        /\ shared_secret' =
             IF a.kind = "response" /\ a.status = 200 /\ jar
             THEN IF a.body = "nonjson" THEN "password"
                  ELSE IF HasPubkey(a.body) THEN "derived"
                  ELSE shared_secret
             ELSE shared_secret
        /\ logged_in' = LoginReturns(a)
        /\ pc' = ApiAfterEnsureSession(LoginReturns(a))
    /\ UNCHANGED <<impl, result, calls, ensured, poeVars, macVars, cryptoVars, restVars>>

\* One reboot POST of NokiaFastMileAPI.reboot_device and the code up to the next
\* POST or the return.
ApiPostStep(here, ep, accepted, next) ==
    /\ impl = "api" /\ pc = here
    /\ \E o \in Outcomes :
        /\ posts' = Append(posts, Post(ep, o))
        /\ IF o.kind # "response"
           THEN /\ result' = ApiOnException(o.kind)
                /\ pc' = "done"
           ELSE IF accepted[o]
           THEN /\ result' = "True"
                /\ pc' = "done"
           ELSE IF next = "done"
           THEN /\ result' = "False"
                /\ pc' = "done"
           ELSE /\ result' = result
                /\ pc' = next
    /\ UNCHANGED <<impl, session_id, cookie_sid, shared_secret, calls, ensured, logged_in,
                   poeVars, macVars, cryptoVars, restVars>>

ApiRebootPrimary ==
    ApiPostStep("primary", EpReboot, [o \in Outcomes |-> ApiPrimaryAccepted(o)], "command")
ApiRebootCommand ==
    ApiPostStep("command", EpCommand, [o \in Outcomes |-> ApiCommandAccepted(o)], "maintenance")
ApiRebootMaintenance ==
    ApiPostStep("maintenance", EpMaintenance, [o \in Outcomes |-> ApiMaintenanceAccepted(o)], "done")

\* nokia_fastmile_reboot.reboot_device: a fresh session and a login POST whose
\* outcome is only printed, then the same chain.
ScriptRebootCall ==
    /\ pc \in {"idle", "done"}
    /\ calls < MaxCalls
    /\ calls' = calls + 1
    /\ impl' = "script"
    /\ posts' = <<>>
    /\ result' = "none"
    /\ ensured' = 0
    /\ pc' = "login"
    /\ UNCHANGED <<session_id, cookie_sid, shared_secret, logged_in,
                   poeVars, macVars, cryptoVars, restVars>>

ScriptLogin ==
    /\ impl = "script" /\ pc = "login"
    /\ \E a \in LoginAnswers : posts' = Append(posts, LoginLogged(a))
    /\ pc' = "primary"
    /\ UNCHANGED <<impl, result, session_id, cookie_sid, shared_secret, calls, ensured, logged_in,
                   poeVars, macVars, cryptoVars, restVars>>

ScriptPostStep(here, ep, accepted, next) ==
    /\ impl = "script" /\ pc = here
    /\ \E o \in Outcomes :
        /\ posts' = Append(posts, Post(ep, o))
        /\ IF o.kind # "response"
           THEN /\ result' = ScriptOnException(o.kind)
                /\ pc' = "done"
           ELSE IF accepted[o]
           THEN /\ result' = "True"
                /\ pc' = "done"
           ELSE IF next = "done"
           THEN /\ result' = "False"
                /\ pc' = "done"
           ELSE /\ result' = result
                /\ pc' = next
    /\ UNCHANGED <<impl, session_id, cookie_sid, shared_secret, calls, ensured, logged_in,
                   poeVars, macVars, cryptoVars, restVars>>

ScriptRebootPrimary ==
    ScriptPostStep("primary", EpReboot, [o \in Outcomes |-> ScriptPrimaryAccepted(o)], "command")
ScriptRebootCommand ==
    ScriptPostStep("command", EpCommand, [o \in Outcomes |-> ScriptCommandAccepted(o)], "maintenance")
ScriptRebootMaintenance ==
    ScriptPostStep("maintenance", EpMaintenance, [o \in Outcomes |-> ScriptMaintenanceAccepted(o)], "done")

\* NokiaFastMileMonitor.reboot_device: no login, one POST, every request
\* exception answered with False.
MonitorRebootCall ==
    /\ pc \in {"idle", "done"}
    /\ calls < MaxCalls
    /\ calls' = calls + 1
    /\ impl' = "monitor"
    /\ posts' = <<>>
    /\ result' = "none"
    /\ ensured' = 0
    /\ pc' = "primary"
    /\ UNCHANGED <<session_id, cookie_sid, shared_secret, logged_in,
                   poeVars, macVars, cryptoVars, restVars>>

MonitorReboot ==
    /\ impl = "monitor" /\ pc = "primary"
    /\ \E o \in Outcomes :
        /\ posts' = Append(posts, Post(EpReboot, o))
        /\ result' = IF o.kind # "response" THEN MonitorOnException(o.kind)
                     ELSE IF MonitorAccepted(o) THEN "True"
                     ELSE "False"
    /\ pc' = "done"
    /\ UNCHANGED <<impl, session_id, cookie_sid, shared_secret, calls, ensured, logged_in,
                   poeVars, macVars, cryptoVars, restVars>>

\* ---- status reads: get_prelogin_status -> _make_request(endpoint, "GET")
EpPrelogin == "prelogin_status_web_app.cgi"

\* The body of an answer to a status request: a JSON object, the JSON literal
\* null, or a text that is not JSON.
ReadBodies == {"object", "null", "nonjson"}
ReadOutcomes ==
    {Response(s, b) : s \in Statuses, b \in ReadBodies} \cup {Raised(e) : e \in Exceptions}

\* response.raise_for_status() raises HTTPError, a RequestException
RaisesForStatus(o) == o.status >= 400
\* response.json(): does the body parse, and to what
IsJson(b) == b \in {"object", "null"}
ParsedJson(b) == IF b = "null" THEN "None" ELSE "dict"

\* NokiaFastMileAPI._make_request: the request, raise_for_status, response.json()
\* with "except ValueError", all inside "except RequestException: return None".
ApiMakeRequestReturnsBug(o) ==
    IF o.kind # "response" THEN "None"
    ELSE IF IsJson(o.body) THEN ParsedJson(o.body)
    ELSE "raw_response"
ApiMakeRequestReturns(o) ==
    IF o.kind # "response" THEN "None"
    ELSE IF RaisesForStatus(o) THEN "None"
    ELSE IF IsJson(o.body) THEN ParsedJson(o.body)
    ELSE "raw_response"

\* NokiaFastMileMonitor._make_request: the same with "except json.JSONDecodeError".
MonitorMakeRequestReturns(o) ==
    IF o.kind # "response" THEN "None"
    ELSE IF RaisesForStatus(o) THEN "None"
    ELSE IF IsJson(o.body) THEN ParsedJson(o.body)
    ELSE "raw_response"

\* NokiaFastMileAPI.get_prelogin_status: one GET through _make_request, which
\* does not call _ensure_session.
ApiStatusRead ==
    /\ pc \in {"idle", "done"}
    /\ calls < MaxCalls
    /\ calls' = calls + 1
    /\ impl' = "api_status"
    /\ ensured' = 0
    /\ \E o \in ReadOutcomes :
        /\ posts' = <<Post(EpPrelogin, o)>>
        /\ result' = ApiMakeRequestReturns(o)
    /\ pc' = "done"
    /\ UNCHANGED <<session_id, cookie_sid, shared_secret, logged_in,
                   poeVars, macVars, cryptoVars, restVars>>

\* NokiaFastMileMonitor.get_prelogin_status.
MonitorStatusRead ==
    /\ pc \in {"idle", "done"}
    /\ calls < MaxCalls
    /\ calls' = calls + 1
    /\ impl' = "monitor_status"
    /\ ensured' = 0
    /\ \E o \in ReadOutcomes :
        /\ posts' = <<Post(EpPrelogin, o)>>
        /\ result' = MonitorMakeRequestReturns(o)
    /\ pc' = "done"
    /\ UNCHANGED <<session_id, cookie_sid, shared_secret, logged_in,
                   poeVars, macVars, cryptoVars, restVars>>

(***************************************************************************)
(* PART 2.  The PoE controller (environment) and the UniFiAPI client.      *)
(***************************************************************************)
Tasks == {"t1", "t2", "t3"}
Ports == 1..NumPorts
Modes == {"auto", "off", "pasv24"}

\* async_setup_entry builds one UniFiAPI per config entry (one entry per port):
\* task "t1" runs on the client of one entry, task "t2" on that of another;
\* task "t3" is the coordinator poll of the first entry, on the same client as
\* "t1".
Clients == {"c1", "c2"}
ClientOf(t) == IF t = "t2" THEN "c2" ELSE "c1"

\* ---- MAC addresses, as sequences of characters
\* str.lower() on the letters the model uses
LowerChar(c) ==
    CASE c = "A" -> "a" [] c = "B" -> "b" [] c = "C" -> "c"
      [] c = "D" -> "d" [] c = "E" -> "e" [] c = "F" -> "f"
      [] OTHER -> c
Lower(s) == [i \in 1..Len(s) |-> LowerChar(s[i])]
\* str.replace(old, new) for one-character strings
Replace(s, old, new) == [i \in 1..Len(s) |-> IF s[i] = old THEN new ELSE s[i]]

\* mac_normalized of get_device_by_mac, set_port_poe_mode and restart_poe_port:
\* device_mac.lower().replace("-", ":").replace("_", ":"), written out in each.
GetDeviceMacKeyBug(mac) == Replace(Replace(Lower(mac), "_", ":"), "-", "_")
GetDeviceMacKey(mac) == Replace(Replace(Lower(mac), "-", ":"), "_", ":")
SetPortMacKey(mac)   == Replace(Replace(Lower(mac), "-", ":"), "_", ":")
RestartMacKey(mac)   == Replace(Replace(Lower(mac), "-", ":"), "_", ":")

\* The switch's MAC as the config entry holds it (taken from the device list),
\* and the MAC of another device of the site as the controller reports it.
DeviceMac == <<"a", "a", ":", "b", "b">>
OtherMac  == <<"A", "A", ":", "B", "A">>
Mac   == GetDeviceMacKey(DeviceMac)     \* the cache key of the switch
Macs  == {Mac, Lower(OtherMac)}

\* A port-override entry.  poe_mode "absent" stands for an entry without that key.
Override(p, m, net, fwd) ==
    [port_idx |-> p, poe_mode |-> m, native_networkconf_id |-> net, forward |-> fwd]
\* An entry the controller already holds, made by its user interface.
Existing(p, m) == Override(p, m, "lan", "customize")

\* A device record as the controller serves it; NoDevice stands for None.
NoDevice ==
    [present |-> FALSE, mac |-> <<>>, has_id |-> FALSE, last_connection_network_id |-> "",
     port_overrides |-> <<>>, port_table |-> <<>>]
\* The record of the other device.
OtherDevice ==
    [present |-> TRUE, mac |-> OtherMac, has_id |-> TRUE, last_connection_network_id |-> "net0",
     port_overrides |-> <<>>, port_table |-> <<>>]

\* "for x in s: if x.get('port_idx') == port_idx: ... break": the index of the
\* first element of s with that port_idx, 0 when there is none.
FirstIdx(s, port) ==
    IF \E i \in 1..Len(s) : s[i].port_idx = port
    THEN CHOOSE i \in 1..Len(s) :
            s[i].port_idx = port /\ \A j \in 1..(i - 1) : s[j].port_idx # port
    ELSE 0

\* set_port_poe_mode: the entry of port_idx in the copied list, if any.
FindOverrideNeverBug(list, port) == 0
FindOverride(list, port) == FirstIdx(list, port)

\* The override list set_port_poe_mode PUTs: a copy of the device's list, the
\* entry of port_idx found or appended, its poe_mode set.
BuildOverridesBug(device, port, mode) ==
    LET copy == device.port_overrides
        i    == FindOverride(copy, port)
    IN  IF i = 0
        THEN Append(copy, Override(port, mode, device.last_connection_network_id, "all"))
        ELSE [copy EXCEPT ![i] = Override(port, mode, device.last_connection_network_id, "all")]
BuildOverrides(device, port, mode) ==
    LET copy == device.port_overrides
        i    == FindOverride(copy, port)
    IN  IF i = 0
        THEN Append(copy, Override(port, mode, device.last_connection_network_id, "all"))
        ELSE [copy EXCEPT ![i].poe_mode = mode]

\* restart_poe_port: the port's mode in the port table, "auto" when the port is
\* not listed or its entry has no poe_mode.
CurrentModeAlwaysAutoBug(table, port) == "auto"
CurrentMode(table, port) ==
    LET i == FirstIdx(table, port)
    IN  IF i = 0 THEN "auto"
        ELSE IF table[i].poe_mode = "absent" THEN "auto"
        ELSE table[i].poe_mode

\* ---- HTTP requests and answers
NoReq  == [method |-> "none", endpoint |-> "", data |-> <<>>]
NoResp == [kind |-> "none", status |-> 0, rc |-> "", data |-> <<>>]
Req(method, endpoint, data) == [method |-> method, endpoint |-> endpoint, data |-> data]

ErrorStatuses == {401, 403, 500}
\* an answer with a JSON body, with a non-JSON body, or none (aiohttp.ClientError)
\* (data: the "data" list of the body)
JsonAnswer(st, rc, data) == [kind |-> "json", status |-> st, rc |-> rc, data |-> data]
TextAnswer(st)           == [kind |-> "text", status |-> st, rc |-> "", data |-> <<>>]
ClientError              == [kind |-> "ClientError", status |-> 0, rc |-> "", data |-> <<>>]
ErrorAnswers == {TextAnswer(st) : st \in ErrorStatuses} \cup {ClientError}

\* UniFiAPI._request raises UniFiAPIError on 401, 403, any status >= 400 and on
\* aiohttp.ClientError; otherwise it returns the JSON body or {"raw": text}.
RequestRaises(r) ==
    IF r.kind = "ClientError" THEN TRUE
    ELSE IF r.status = 401 THEN TRUE
    ELSE IF r.status = 403 THEN TRUE
    ELSE r.status >= 400

\* ---- events a task records
Ev(e, p, m, b) == [ev |-> e, port |-> p, mode |-> m, body |-> b]

PoeInitOverrides ==
    {<<>>}
    \cup {<<Existing(p, m)>> : p \in Ports, m \in {"absent", "auto"}}
    \cup {<<Existing(pq[1], "absent"), Existing(pq[2], "off")>> :
            pq \in {x \in Ports \X Ports : x[1] # x[2]}}

\* The PoE mode a port runs with under an override list ("auto" by default).
EffectiveMode(list, port) ==
    LET i == FindOverride(list, port) IN
    IF i = 0 THEN "auto"
    ELSE IF list[i].poe_mode = "absent" THEN "auto"
    ELSE list[i].poe_mode

\* The port table the controller reports for the first k ports.
TableOf(list, k) == [i \in 1..k |-> [port_idx |-> i, poe_mode |-> EffectiveMode(list, i)]]

\* The locals of a task's coroutines: of set_port_poe_mode its arguments (port,
\* mode) and device; of restart_poe_port the rc of the power-cycle answer (cmd),
\* port_table and current_mode, and which of its two set_port_poe_mode calls
\* runs (phase); failed names the step that failed, "" while none has.
NoLocals ==
    [device |-> NoDevice, port |-> 0, mode |-> "", phase |-> "none",
     cmd |-> "", port_table |-> <<>>, current_mode |-> "", failed |-> ""]

PoeIdle ==
    /\ cache = [c \in Clients |-> [m \in Macs |-> NoDevice]]
    /\ tpc = [t \in Tasks |-> "idle"]
    /\ top = [t \in Tasks |-> [op |-> "none", port |-> 0, mode |-> ""]]
    /\ loc = [t \in Tasks |-> NoLocals]
    /\ req = [t \in Tasks |-> NoReq]
    /\ resp = [t \in Tasks |-> NoResp]
    /\ tlog = [t \in Tasks |-> <<>>]
    /\ tres = [t \in Tasks |-> "none"]
    /\ ops = 0

PoeInit ==
    /\ \E present \in BOOLEAN, id \in BOOLEAN, list \in PoeInitOverrides, k \in 0..NumPorts :
        /\ present \/ (~id /\ list = <<>> /\ k = 0)
        /\ ctl = [present |-> present, mac |-> DeviceMac, has_id |-> id,
                  last_connection_network_id |-> "net0",
                  port_overrides |-> list, port_table |-> TableOf(list, k)]
    /\ PoeIdle

\* ---- the controller answers the request a task has in flight
\* The device list of the site: the switch while it is adopted, and the other device.
DeviceList == (IF ctl.present THEN <<ctl>> ELSE <<>>) \o <<OtherDevice>>

\* GET stat/device: the device list, an error, or a body that is not JSON.
ControllerGet(t) ==
    /\ req[t].method = "GET" /\ resp[t] = NoResp
    /\ \E a \in ErrorAnswers \cup {TextAnswer(200), JsonAnswer(200, "ok", DeviceList)} :
        resp' = [resp EXCEPT ![t] = a]
    /\ req' = [req EXCEPT ![t] = NoReq]
    /\ UNCHANGED <<ctl, cache, tpc, top, loc, tlog, tres, ops, nokiaVars, macVars, cryptoVars, restVars>>

\* PUT rest/device/{id}: accepted, the override list replaced; or refused.
ControllerPut(t) ==
    /\ req[t].method = "PUT" /\ resp[t] = NoResp
    /\ \/ /\ resp' = [resp EXCEPT ![t] = JsonAnswer(200, "ok", <<>>)]
          /\ ctl' = [ctl EXCEPT !.port_overrides = req[t].data]
       \/ /\ \E a \in ErrorAnswers : resp' = [resp EXCEPT ![t] = a]
          /\ ctl' = ctl
    /\ req' = [req EXCEPT ![t] = NoReq]
    /\ UNCHANGED <<cache, tpc, top, loc, tlog, tres, ops, nokiaVars, macVars, cryptoVars, restVars>>

\* POST cmd/devmgr (power-cycle): meta.rc "ok" or "error", a body that is not
\* JSON, or an error.
ControllerCmd(t) ==
    /\ req[t].method = "POST" /\ resp[t] = NoResp
    /\ \E a \in ErrorAnswers \cup {TextAnswer(200), JsonAnswer(200, "ok", <<>>),
                                   JsonAnswer(200, "error", <<>>)} :
        resp' = [resp EXCEPT ![t] = a]
    /\ req' = [req EXCEPT ![t] = NoReq]
    /\ UNCHANGED <<ctl, cache, tpc, top, loc, tlog, tres, ops, nokiaVars, macVars, cryptoVars, restVars>>

\* The switch takes up the configured overrides: the port table reports them.
ControllerProvision ==
    /\ ctl.present
    /\ ctl.port_table # TableOf(ctl.port_overrides, Len(ctl.port_table))
    /\ ctl' = [ctl EXCEPT !.port_table = TableOf(ctl.port_overrides, Len(ctl.port_table))]
    /\ UNCHANGED <<cache, tpc, top, loc, req, resp, tlog, tres, ops, nokiaVars, macVars, cryptoVars, restVars>>

\* ---- UniFiAPI
\* get_devices: "for device in devices: mac = device.get('mac', '').lower();
\* if mac: self._devices_cache[mac] = device", on one client's cache c.
RECURSIVE CacheDevices(_, _)
CacheDevices(c, devices) ==
    IF devices = <<>> THEN c
    ELSE LET device == Head(devices)
             mac    == Lower(device.mac)
         IN  CacheDevices(IF mac # <<>> THEN [c EXCEPT ![mac] = device] ELSE c, Tail(devices))

\* get_devices on answer r: devices = result.get("data", []), empty when the
\* body is not JSON.
CacheAfterFetch(c, r) ==
    IF r.kind = "json" THEN CacheDevices(c, r.data) ELSE c

\* The operation of task t ends with outcome v ("raised": UniFiAPIError left it).
Finish(t, v) ==
    /\ tpc' = [tpc EXCEPT ![t] = "done"]
    /\ tres' = [tres EXCEPT ![t] = v]

\* The same, the failing step recorded.
Fail(t, step, v) ==
    /\ Finish(t, v)
    /\ loc' = [loc EXCEPT ![t].failed = step]

CanStart(t) ==
    /\ tpc[t] \in {"idle", "done"}
    /\ ops < MaxOps

\* get_device_by_mac: "if mac in self._devices_cache"
CacheHitNeverBug(c, mac) == FALSE
CacheHit(c, mac) == c[mac].present

\* get_device_by_mac (a coordinator poll): from the cache, else a GET of the list.
StartGet(t) ==
    /\ CanStart(t)
    /\ ops' = ops + 1
    /\ top' = [top EXCEPT ![t] = [op |-> "get", port |-> 0, mode |-> ""]]
    /\ resp' = [resp EXCEPT ![t] = NoResp]
    /\ IF CacheHit(cache[ClientOf(t)], GetDeviceMacKey(DeviceMac))
       THEN /\ loc' = [loc EXCEPT ![t] = [NoLocals EXCEPT
                                !.device = cache[ClientOf(t)][GetDeviceMacKey(DeviceMac)]]]
            /\ tlog' = [tlog EXCEPT ![t] = <<>>]
            /\ Finish(t, "device")
            /\ req' = req
       ELSE /\ loc' = [loc EXCEPT ![t] = NoLocals]
            /\ tlog' = [tlog EXCEPT ![t] = <<Ev("GET", 0, "", <<>>)>>]
            /\ req' = [req EXCEPT ![t] = Req("GET", "stat/device", <<>>)]
            /\ tpc' = [tpc EXCEPT ![t] = "get_fetch"]
            /\ tres' = [tres EXCEPT ![t] = "none"]
    /\ UNCHANGED <<ctl, cache, nokiaVars, macVars, cryptoVars, restVars>>

GetResume(t) ==
    /\ tpc[t] = "get_fetch" /\ resp[t] # NoResp
    /\ resp' = [resp EXCEPT ![t] = NoResp]
    /\ IF RequestRaises(resp[t])
       THEN /\ Fail(t, "fetch", "raised")
            /\ UNCHANGED cache
       ELSE LET c2  == CacheAfterFetch(cache[ClientOf(t)], resp[t])
                dev == c2[GetDeviceMacKey(DeviceMac)]
            IN  /\ cache' = [cache EXCEPT ![ClientOf(t)] = c2]
                /\ loc' = [loc EXCEPT ![t].device = dev]
                /\ Finish(t, IF dev.present THEN "device" ELSE "None")
    /\ UNCHANGED <<ctl, top, req, tlog, ops, nokiaVars, macVars, cryptoVars, restVars>>

\* set_port_poe_mode up to its first await: the cache entry is removed, so the
\* lookup of get_device_by_mac misses and the device list is requested.
BeginSet(t, c, port, mode, phase, locals, before) ==
    /\ cache' = [cache EXCEPT ![ClientOf(t)] = [c EXCEPT ![SetPortMacKey(DeviceMac)] = NoDevice]]
    /\ loc' = [loc EXCEPT ![t] = [locals EXCEPT !.device = NoDevice, !.port = port,
                                                !.mode = mode, !.phase = phase]]
    /\ tlog' = [tlog EXCEPT ![t] = before \o <<Ev("set", port, mode, <<>>), Ev("GET", 0, "", <<>>)>>]
    /\ req' = [req EXCEPT ![t] = Req("GET", "stat/device", <<>>)]
    /\ tpc' = [tpc EXCEPT ![t] = "set_fetch"]

StartSet(t) ==
    /\ CanStart(t)
    /\ ops' = ops + 1
    /\ \E port \in Ports, mode \in Modes :
        /\ top' = [top EXCEPT ![t] = [op |-> "set", port |-> port, mode |-> mode]]
        /\ BeginSet(t, cache[ClientOf(t)], port, mode, "none", NoLocals, <<>>)
    /\ resp' = [resp EXCEPT ![t] = NoResp]
    /\ tres' = [tres EXCEPT ![t] = "none"]
    /\ UNCHANGED <<ctl, nokiaVars, macVars, cryptoVars, restVars>>

\* set_port_poe_mode from the answer to the device list up to the PUT.  The
\* errors of this part are raised, not caught: UniFiAPIError leaves the method.
SetFetchResume(t) ==
    /\ tpc[t] = "set_fetch" /\ resp[t] # NoResp
    /\ resp' = [resp EXCEPT ![t] = NoResp]
    /\ IF RequestRaises(resp[t])
       THEN /\ Fail(t, "fetch", "raised")
            /\ UNCHANGED <<cache, req, tlog>>
       ELSE LET c2  == CacheAfterFetch(cache[ClientOf(t)], resp[t])
                dev == c2[GetDeviceMacKey(DeviceMac)]
            IN  /\ cache' = [cache EXCEPT ![ClientOf(t)] = c2]
                /\ IF ~dev.present
                   THEN /\ Finish(t, "raised")
                        /\ loc' = [loc EXCEPT ![t].device = dev, ![t].failed = "lookup"]
                        /\ UNCHANGED <<req, tlog>>
                   ELSE IF ~dev.has_id
                   THEN /\ Finish(t, "raised")
                        /\ loc' = [loc EXCEPT ![t].device = dev, ![t].failed = "id"]
                        /\ UNCHANGED <<req, tlog>>
                   ELSE LET list == BuildOverrides(dev, loc[t].port, loc[t].mode) IN
                        /\ loc' = [loc EXCEPT ![t].device = dev]
                        /\ req' = [req EXCEPT ![t] = Req("PUT", "rest/device", list)]
                        /\ tlog' = [tlog EXCEPT ![t] = Append(@, Ev("PUT", loc[t].port, loc[t].mode, list))]
                        /\ tpc' = [tpc EXCEPT ![t] = "set_put"]
                        /\ tres' = tres
    /\ UNCHANGED <<ctl, top, ops, nokiaVars, macVars, cryptoVars, restVars>>

\* Does the PUT's answer make set_port_poe_mode return True?  (UniFiAPIError is
\* caught around the PUT.)
SetPutReturns(r) == ~RequestRaises(r)

\* set_port_poe_mode from the PUT's answer to its return, and, inside
\* restart_poe_port, the caller's code up to its next await or return.
SetPutResume(t) ==
    /\ tpc[t] = "set_put" /\ resp[t] # NoResp
    /\ resp' = [resp EXCEPT ![t] = NoResp]
    /\ cache' = IF SetPutReturns(resp[t])
                THEN [cache EXCEPT ![ClientOf(t)][SetPortMacKey(DeviceMac)] = NoDevice]
                ELSE cache
    /\ IF top[t].op = "restart" /\ loc[t].phase = "off" /\ SetPutReturns(resp[t])
       THEN /\ tpc' = [tpc EXCEPT ![t] = "rs_sleep"]
            /\ tlog' = [tlog EXCEPT ![t] = Append(@, Ev("sleep", 0, "", <<>>))]
            /\ tres' = tres
            /\ loc' = loc
       ELSE /\ Finish(t, IF SetPutReturns(resp[t]) THEN "True" ELSE "False")
            /\ loc' = [loc EXCEPT ![t].failed = IF SetPutReturns(resp[t]) THEN "" ELSE "put"]
            /\ tlog' = tlog
    /\ UNCHANGED <<ctl, top, req, ops, nokiaVars, macVars, cryptoVars, restVars>>

\* restart_poe_port: the power-cycle command is sent.
StartRestart(t) ==
    /\ CanStart(t)
    /\ ops' = ops + 1
    /\ \E port \in Ports :
        /\ top' = [top EXCEPT ![t] = [op |-> "restart", port |-> port, mode |-> ""]]
        /\ loc' = [loc EXCEPT ![t] = [NoLocals EXCEPT !.port = port]]
    /\ req' = [req EXCEPT ![t] = Req("POST", "cmd/devmgr", <<>>)]
    /\ resp' = [resp EXCEPT ![t] = NoResp]
    /\ tlog' = [tlog EXCEPT ![t] = <<Ev("POST", 0, "", <<>>)>>]
    /\ tpc' = [tpc EXCEPT ![t] = "rs_cmd"]
    /\ tres' = [tres EXCEPT ![t] = "none"]
    /\ UNCHANGED <<ctl, cache, nokiaVars, macVars, cryptoVars, restVars>>

\* result.get("meta", {}).get("rc") == "ok"
PowerCycledBug(r) == ~RequestRaises(r)
PowerCycled(r) == ~RequestRaises(r) /\ r.kind = "json" /\ r.rc = "ok"

\* The answer to the power-cycle command: done, or the manual fallback begins
\* (cache entry removed, device list requested).
RestartCmdResume(t) ==
    /\ tpc[t] = "rs_cmd" /\ resp[t] # NoResp
    /\ resp' = [resp EXCEPT ![t] = NoResp]
    /\ loc' = [loc EXCEPT ![t].cmd = IF RequestRaises(resp[t]) THEN "raised"
                                     ELSE IF resp[t].kind = "json" THEN resp[t].rc
                                     ELSE "raw"]
    /\ IF PowerCycled(resp[t])
       THEN /\ Finish(t, "True")
            /\ UNCHANGED <<cache, req, tlog>>
       ELSE /\ cache' = [cache EXCEPT ![ClientOf(t)][RestartMacKey(DeviceMac)] = NoDevice]
            /\ req' = [req EXCEPT ![t] = Req("GET", "stat/device", <<>>)]
            /\ tlog' = [tlog EXCEPT ![t] = Append(@, Ev("GET", 0, "", <<>>))]
            /\ tpc' = [tpc EXCEPT ![t] = "rs_fetch"]
            /\ tres' = tres
    /\ UNCHANGED <<ctl, top, ops, nokiaVars, macVars, cryptoVars, restVars>>

\* The fallback's device fetch answered: errors are raised; otherwise the mode of
\* the port is read from the port table and set_port_poe_mode("off") begins.
RestartFetchResume(t) ==
    /\ tpc[t] = "rs_fetch" /\ resp[t] # NoResp
    /\ resp' = [resp EXCEPT ![t] = NoResp]
    /\ IF RequestRaises(resp[t])
       THEN /\ Fail(t, "fetch", "raised")
            /\ UNCHANGED <<cache, req, tlog>>
       ELSE LET c2  == CacheAfterFetch(cache[ClientOf(t)], resp[t])
                dev == c2[GetDeviceMacKey(DeviceMac)]
            IN
            IF ~dev.present
            THEN /\ Fail(t, "lookup", "raised")
                 /\ cache' = [cache EXCEPT ![ClientOf(t)] = c2]
                 /\ UNCHANGED <<req, tlog>>
            ELSE /\ BeginSet(t, c2, top[t].port, "off", "off",
                             [loc[t] EXCEPT !.port_table = dev.port_table,
                                            !.current_mode = CurrentMode(dev.port_table, top[t].port)],
                             tlog[t])
                 /\ tres' = tres
    /\ UNCHANGED <<ctl, top, ops, nokiaVars, macVars, cryptoVars, restVars>>

\* asyncio.sleep(delay) is over: set_port_poe_mode(current_mode) begins.
RestartWake(t) ==
    /\ tpc[t] = "rs_sleep"
    /\ BeginSet(t, cache[ClientOf(t)], top[t].port, loc[t].current_mode, "on", loc[t],
                Append(tlog[t], Ev("wake", 0, "", <<>>)))
    /\ UNCHANGED <<ctl, top, resp, tres, ops, nokiaVars, macVars, cryptoVars, restVars>>

\* ---- the entities that call the client
\* UniFiPoESwitch.async_turn_on / async_turn_off around set_port_poe_mode
\* ending with v: True and False are logged; "except Exception" logs and
\* re-raises.
SwitchTurnOutcome(v) ==
    IF v = "raised" THEN "raised" ELSE "completed"

\* UniFiPoEButton.async_press around restart_poe_port ending with v.
ButtonPressOutcome(v) ==
    IF v = "raised" THEN "raised" ELSE "completed"

TaskStep(t) ==
    \/ StartGet(t) \/ GetResume(t)
    \/ StartSet(t) \/ SetFetchResume(t) \/ SetPutResume(t)
    \/ StartRestart(t) \/ RestartCmdResume(t) \/ RestartFetchResume(t) \/ RestartWake(t)
    \/ ControllerGet(t) \/ ControllerPut(t) \/ ControllerCmd(t)

(***************************************************************************)
(* PART 3.  MAC normalization applied to drawn arguments.                  *)
(***************************************************************************)
MaxMacLen == 3      \* length of the enumerated device_mac arguments
MacChars == {"A", "a", "-", "_", ":"}
MacExampleUpper ==
    <<"A","A","-","B","B","-","C","C","-","D","D","-","E","E","-","F","F">>
MacExampleLower ==
    <<"a","a",":","b","b",":","c","c",":","d","d",":","e","e",":","f","f">>
MacInputs ==
    UNION {[1..n -> MacChars] : n \in 0..MaxMacLen} \cup {MacExampleUpper, MacExampleLower}

\* The three methods that compute mac_normalized.
Sites == {"get", "set", "restart"}
NoKey == [done |-> FALSE, key |-> <<>>]
KeyOf(k) == [done |-> TRUE, key |-> k]

\* Two spellings of one address: the same letters whatever their case, a
\* separator wherever the other has a separator.
Separators == {"-", "_", ":"}
CasePairs == {{"A", "a"}, {"B", "b"}, {"C", "c"}, {"D", "d"}, {"E", "e"}, {"F", "f"}}
SameChar(x, y) == x = y \/ {x, y} \subseteq Separators \/ {x, y} \in CasePairs
SameAddress(a, b) == Len(a) = Len(b) /\ \A i \in 1..Len(a) : SameChar(a[i], b[i])

MacIdle ==
    /\ mac_arg = <<>>
    /\ mac_key = [s \in Sites |-> NoKey]
    /\ mac_again = NoKey

MacInit ==
    /\ mac_arg \in MacInputs
    /\ mac_key = [s \in Sites |-> NoKey]
    /\ mac_again = NoKey

\* get_device_by_mac(mac_arg) computes its key.
GetNormalizes ==
    /\ ~mac_key["get"].done
    /\ mac_key' = [mac_key EXCEPT !["get"] = KeyOf(GetDeviceMacKey(mac_arg))]
    /\ UNCHANGED <<mac_arg, mac_again, nokiaVars, poeVars, cryptoVars, restVars>>

\* set_port_poe_mode(mac_arg, ...) computes mac_normalized.
SetNormalizes ==
    /\ ~mac_key["set"].done
    /\ mac_key' = [mac_key EXCEPT !["set"] = KeyOf(SetPortMacKey(mac_arg))]
    /\ UNCHANGED <<mac_arg, mac_again, nokiaVars, poeVars, cryptoVars, restVars>>

\* restart_poe_port(mac_arg, ...) computes mac_normalized.
RestartNormalizes ==
    /\ ~mac_key["restart"].done
    /\ mac_key' = [mac_key EXCEPT !["restart"] = KeyOf(RestartMacKey(mac_arg))]
    /\ UNCHANGED <<mac_arg, mac_again, nokiaVars, poeVars, cryptoVars, restVars>>

\* get_device_by_mac called with the key it computed before.
GetNormalizesAgain ==
    /\ mac_key["get"].done /\ ~mac_again.done
    /\ mac_again' = KeyOf(GetDeviceMacKey(mac_key["get"].key))
    /\ UNCHANGED <<mac_arg, mac_key, nokiaVars, poeVars, cryptoVars, restVars>>

\* The caller spells the same address differently from now on.
Respell ==
    /\ \E m \in MacInputs :
        /\ m # mac_arg /\ SameAddress(m, mac_arg)
        /\ mac_arg' = m
    /\ UNCHANGED <<mac_key, mac_again, nokiaVars, poeVars, cryptoVars, restVars>>

(***************************************************************************)
(* PART 4.  Payload encryption of the cellular client.                     *)
(***************************************************************************)
\* AES-256 keys, abstractly; "none" is a client without a shared secret.
Keys == {"k1", "k2", "k3"}
Secrets == Keys \cup {"none"}
CryptoClients == {"A", "B"}

\* iv + ciphertext + tag as AES-GCM under key k produces it for plaintext p
\* ("json": a JSON document, "text": anything else); Garbage is any other
\* byte string.
Sealed(k, p) == [kind |-> "gcm", key |-> k, text |-> p]
Garbage == [kind |-> "garbage", key |-> "", text |-> ""]

\* A message "encrypted=1&ct=...&ck=...": ck decodes to a key, or to bytes
\* that are no AES key ("bad").
Msg(ct, ck) == [present |-> TRUE, ct |-> ct, ck |-> ck]
NoMsg == [present |-> FALSE, ct |-> Garbage, ck |-> ""]
Msgs ==
    {Msg(ct, ck) : ct \in {Sealed(k, p) : k \in Keys, p \in {"json", "text"}} \cup {Garbage},
                   ck \in Keys \cup {"bad"}}

\* _encrypt_payload: AES-GCM under self._shared_secret; ck carries the secret.
EncryptPayload(secret) == Msg(Sealed(secret, "json"), secret)

\* _decrypt_response(ct, ck): key = b64decode(ck)[:32]; AES-GCM under that key;
\* json.loads; any exception gives None.  self._shared_secret is not read.
DecryptResponse(secret, ct, ck) ==
    IF ck \notin Keys THEN "None"
    ELSE IF ct.kind # "gcm" \/ ct.key # ck THEN "None"
    ELSE IF ct.text # "json" THEN "None"
    ELSE "dict"

CryptoIdle ==
    /\ crypto_secret = [c \in CryptoClients |-> "none"]
    /\ crypto_msg = NoMsg
    /\ crypto_out = [c \in CryptoClients |-> "pending"]

CryptoInit ==
    /\ crypto_secret \in [CryptoClients -> Secrets]
    /\ crypto_msg = NoMsg
    /\ crypto_out = [c \in CryptoClients |-> "pending"]

\* A client encrypts a payload (ValueError when it has no shared secret).
ClientEncrypts ==
    /\ \E c \in CryptoClients :
        /\ crypto_secret[c] # "none"
        /\ crypto_msg' = EncryptPayload(crypto_secret[c])
    /\ crypto_out' = [c \in CryptoClients |-> "pending"]
    /\ UNCHANGED <<crypto_secret, nokiaVars, poeVars, macVars, restVars>>

\* The device sends an encrypted response.
DeviceSends ==
    /\ crypto_msg' \in Msgs
    /\ crypto_out' = [c \in CryptoClients |-> "pending"]
    /\ UNCHANGED <<crypto_secret, nokiaVars, poeVars, macVars, restVars>>

\* A client decrypts the message.
ClientDecrypts ==
    /\ crypto_msg.present
    /\ \E c \in CryptoClients :
        /\ crypto_out[c] = "pending"
        /\ crypto_out' = [crypto_out EXCEPT
                ![c] = DecryptResponse(crypto_secret[c], crypto_msg.ct, crypto_msg.ck)]
    /\ UNCHANGED <<crypto_secret, crypto_msg, nokiaVars, poeVars, macVars, restVars>>

(***************************************************************************)
(* PART 5.  Status accessors of the cellular client                        *)
(* (nokia_api.py, get_prelogin_status .. get_all_status).                  *)
(* A status is what get_prelogin_status returned: None, the parsed JSON    *)
(* object, or {"raw_response": text}.  Each section of the snapshot is an  *)
(* array that may be absent from the object.                               *)
(***************************************************************************)
MaxItems == 2       \* elements of one section array of the snapshot

ItemNames == <<"first", "second", "third", "fourth">>

Absent       == [present |-> FALSE, items |-> <<>>]
Array(items) == [present |-> TRUE, items |-> items]

\* Arrays of opaque elements: absent, empty, or up to MaxItems elements.
PlainArrays ==
    {Absent} \cup {Array(SubSeq(ItemNames, 1, n)) : n \in 0..MaxItems}

\* Elements of cell_5G_stats_cfg / cell_LTE_stats_cfg: objects that may hold "stat".
StatElem(has, x) == [has_stat |-> has, stat |-> x]

CellArrays ==
    {Absent, Array(<<>>), Array(<<StatElem(FALSE, "none")>>)}
    \cup {Array([i \in 1..n |-> StatElem(TRUE, ItemNames[i])]) : n \in 1..MaxItems}

\* Elements of wan_conns: objects that may hold an "ipConns" array.
ConnElem(ip) == [ipConns |-> ip]

WanConnArrays ==
    {Absent, Array(<<>>)}
    \cup {Array(<<ConnElem(ip)>>) : ip \in PlainArrays}
    \cup {Array(<<ConnElem(Array(<<"first">>)), ConnElem(Array(<<"second">>))>>)}

Snapshot(kind, di, c5, clte, wan, conns, ipst, devs) ==
    [kind |-> kind, device_info |-> di, cell_5G_stats_cfg |-> c5,
     cell_LTE_stats_cfg |-> clte, WAN |-> wan, wan_conns |-> conns,
     wan_ip_status |-> ipst, device_cfg |-> devs]

Sectionless(kind) ==
    Snapshot(kind, Absent, Absent, Absent, Absent, Absent, Absent, Absent)

StatusNone  == Sectionless("None")           \* the request failed
EmptyObject == Sectionless("empty")          \* the device answered {}
RawResponse == Sectionless("raw_response")   \* {"raw_response": text}

\* Every value get_prelogin_status can return.
StatusValues ==
    {StatusNone, EmptyObject, RawResponse}
    \cup {Snapshot("dict", di, c5, clte, wan, conns, ipst, devs) :
            di \in PlainArrays, c5 \in CellArrays, clte \in CellArrays,
            wan \in PlainArrays, conns \in WanConnArrays,
            ipst \in PlainArrays, devs \in PlainArrays}

\* A snapshot whose every section holds n elements.
FullSnapshot(n) ==
    Snapshot("dict",
             Array(SubSeq(ItemNames, 1, n)),
             Array([i \in 1..n |-> StatElem(TRUE, ItemNames[i])]),
             Array([i \in 1..n |-> StatElem(TRUE, ItemNames[i])]),
             Array(SubSeq(ItemNames, 1, n)),
             Array([i \in 1..n |-> ConnElem(Array(<<ItemNames[i]>>))]),
             Array(SubSeq(ItemNames, 1, n)),
             Array(SubSeq(ItemNames, 1, n)))

\* The statuses the four reads of one get_all_status call are drawn from.
AllStatusInputs ==
    {StatusNone, EmptyObject, RawResponse} \cup {FullSnapshot(n) : n \in 0..MaxItems}

\* Python values the accessors return.
PyNone        == [py |-> "None"]
PyItem(x)     == [py |-> "item", item |-> x]
PyDict(es)    == [py |-> "dict", entries |-> es]
PyList(items) == [py |-> "list", items |-> items]
Entry(k, v)   == [key |-> k, value |-> v]

\* "not status" is False.
Truthy(status) == status.kind \notin {"None", "empty"}

\* '"key" in status and len(status["key"]) > 0'
NonEmpty(arr) == arr.present /\ Len(arr.items) > 0

\* element.get("stat", {})
GetStat(elem) == IF elem.has_stat THEN elem.stat ELSE "{}"

GetDeviceInfoLastBug(status) ==
    IF ~Truthy(status) \/ ~status.device_info.present
       \/ Len(status.device_info.items) = 0
    THEN PyNone
    ELSE PyItem(status.device_info.items[Len(status.device_info.items)])
GetDeviceInfo(status) ==
    IF ~Truthy(status) \/ ~status.device_info.present
       \/ Len(status.device_info.items) = 0
    THEN PyNone
    ELSE PyItem(status.device_info.items[1])

GetCellularStats(status) ==
    IF ~Truthy(status) THEN PyNone
    ELSE PyDict(
        (IF NonEmpty(status.cell_5G_stats_cfg)
           THEN {Entry("5g", GetStat(status.cell_5G_stats_cfg.items[1]))} ELSE {})
        \cup
        (IF NonEmpty(status.cell_LTE_stats_cfg)
           THEN {Entry("lte", GetStat(status.cell_LTE_stats_cfg.items[1]))} ELSE {})
        \cup
        (IF NonEmpty(status.WAN)
           THEN {Entry("wan_mode", status.WAN.items[1])} ELSE {}))

WanEntries(status) ==
    (IF NonEmpty(status.wan_conns) /\ NonEmpty(status.wan_conns.items[1].ipConns)
       THEN {Entry("connection", status.wan_conns.items[1].ipConns.items[1])} ELSE {})
    \cup
    (IF NonEmpty(status.wan_ip_status)
       THEN {Entry("status", status.wan_ip_status.items[1])} ELSE {})

GetWanInfo(status) ==
    IF ~Truthy(status) THEN PyNone
    ELSE IF WanEntries(status) = {} THEN PyNone
    ELSE PyDict(WanEntries(status))

GetConnectedDevices(status) ==
    IF ~Truthy(status) THEN PyNone
    ELSE IF ~status.device_cfg.present \/ status.device_cfg.items = <<>> THEN PyNone
    ELSE PyList(status.device_cfg.items)

\* get_all_status: the four accessors in the order of the dict display, each
\* on the status its own get_prelogin_status returned.
AllStatusOneSnapshotBug(gets) ==
    [py |-> "all",
     device_info       |-> GetDeviceInfo(gets[1]),
     wan_info          |-> GetWanInfo(gets[1]),
     cellular_stats    |-> GetCellularStats(gets[1]),
     connected_devices |-> GetConnectedDevices(gets[1])]
AllStatus(gets) ==
    [py |-> "all",
     device_info       |-> GetDeviceInfo(gets[1]),
     wan_info          |-> GetWanInfo(gets[2]),
     cellular_stats    |-> GetCellularStats(gets[3]),
     connected_devices |-> GetConnectedDevices(gets[4])]

\* No accessor called yet; the model follows one call per behaviour.
StatusIdle ==
    /\ st_call = "none"
    /\ st_gets = <<>>
    /\ st_ret = PyNone

ApiGetDeviceInfo ==
    /\ st_call = "none"
    /\ \E s \in StatusValues :
        /\ st_call' = "get_device_info"
        /\ st_gets' = <<s>>
        /\ st_ret' = GetDeviceInfo(s)
    /\ UNCHANGED <<nokiaVars, poeVars, macVars, cryptoVars,
                   uptimeVars, flowVars, switchVars>>

ApiGetWanInfo ==
    /\ st_call = "none"
    /\ \E s \in StatusValues :
        /\ st_call' = "get_wan_info"
        /\ st_gets' = <<s>>
        /\ st_ret' = GetWanInfo(s)
    /\ UNCHANGED <<nokiaVars, poeVars, macVars, cryptoVars,
                   uptimeVars, flowVars, switchVars>>

ApiGetCellularStats ==
    /\ st_call = "none"
    /\ \E s \in StatusValues :
        /\ st_call' = "get_cellular_stats"
        /\ st_gets' = <<s>>
        /\ st_ret' = GetCellularStats(s)
    /\ UNCHANGED <<nokiaVars, poeVars, macVars, cryptoVars,
                   uptimeVars, flowVars, switchVars>>

ApiGetConnectedDevices ==
    /\ st_call = "none"
    /\ \E s \in StatusValues :
        /\ st_call' = "get_connected_devices"
        /\ st_gets' = <<s>>
        /\ st_ret' = GetConnectedDevices(s)
    /\ UNCHANGED <<nokiaVars, poeVars, macVars, cryptoVars,
                   uptimeVars, flowVars, switchVars>>

ApiGetAllStatus ==
    /\ st_call = "none"
    /\ \E s1 \in AllStatusInputs, s2 \in AllStatusInputs,
          s3 \in AllStatusInputs, s4 \in AllStatusInputs :
        /\ st_call' = "get_all_status"
        /\ st_gets' = <<s1, s2, s3, s4>>
        /\ st_ret' = AllStatus(<<s1, s2, s3, s4>>)
    /\ UNCHANGED <<nokiaVars, poeVars, macVars, cryptoVars,
                   uptimeVars, flowVars, switchVars>>

(***************************************************************************)
(* PART 6.  format_uptime (nokia_fastmile/sensor.py and                    *)
(* nokia_fastmile_monitor.py).  A text is the sequence of its characters.  *)
(***************************************************************************)
MaxDays == 1        \* whole days in a drawn uptime

DigitChars == <<"0", "1", "2", "3", "4", "5", "6", "7", "8", "9">>

\* str(n) of a natural number, as an f-string renders it.
RECURSIVE Str(_)
Str(n) ==
    IF n < 10 THEN <<DigitChars[n + 1]>>
    ELSE Str(n \div 10) \o <<DigitChars[(n % 10) + 1]>>

Unknown == <<"U", "n", "k", "n", "o", "w", "n">>

\* sensor.py: "Unknown" for a falsy argument, else days, hours and minutes.
SensorFormatUptimeBug(s) ==
    IF s = 0 THEN Unknown
    ELSE LET days    == s \div 86400
             hours   == s \div 3600
             minutes == (s % 3600) \div 60
         IN  Str(days) \o <<"d", " ">> \o Str(hours) \o <<"h", " ">>
             \o Str(minutes) \o <<"m">>
SensorFormatUptime(s) ==
    IF s = 0 THEN Unknown
    ELSE LET days      == s \div 86400
             remainder == s % 86400
             hours     == remainder \div 3600
             minutes   == (remainder % 3600) \div 60
         IN  Str(days) \o <<"d", " ">> \o Str(hours) \o <<"h", " ">>
             \o Str(minutes) \o <<"m">>

\* nokia_fastmile_monitor.py: days, hours, minutes and seconds, zero included.
MonitorFormatUptimeBug(s) ==
    LET days      == s \div 86400
        remainder == s % 86400
        hours     == remainder \div 3600
        minutes   == (remainder % 3600) \div 60
    IN  Str(days) \o <<"d", " ">> \o Str(hours) \o <<"h", " ">>
        \o Str(minutes) \o <<"m">>
MonitorFormatUptime(s) ==
    LET days      == s \div 86400
        remainder == s % 86400
        hours     == remainder \div 3600
        minutes   == (remainder % 3600) \div 60
        secs      == (remainder % 3600) % 60
    IN  Str(days) \o <<"d", " ">> \o Str(hours) \o <<"h", " ">>
        \o Str(minutes) \o <<"m", " ">> \o Str(secs) \o <<"s">>

\* Uptimes around every unit boundary, 0 and 90061 among them.
UptimeInputs ==
    {86400 * d + 3600 * h + 60 * m + sec :
        d \in 0..MaxDays, h \in {0, 1, 23}, m \in {0, 1, 59}, sec \in {0, 1, 59}}

UptimeIdle ==
    /\ seconds = 0
    /\ up_impl = "none"
    /\ up_text = <<>>

UptimeInit ==
    /\ seconds \in UptimeInputs
    /\ up_impl = "none"
    /\ up_text = <<>>

SensorFormats ==
    /\ up_impl = "none"
    /\ up_impl' = "sensor"
    /\ up_text' = SensorFormatUptime(seconds)
    /\ UNCHANGED <<seconds, nokiaVars, poeVars, macVars, cryptoVars,
                   statusVars, flowVars, switchVars>>

MonitorFormats ==
    /\ up_impl = "none"
    /\ up_impl' = "monitor"
    /\ up_text' = MonitorFormatUptime(seconds)
    /\ UNCHANGED <<seconds, nokiaVars, poeVars, macVars, cryptoVars,
                   statusVars, flowVars, switchVars>>

(***************************************************************************)
(* PART 7.  Port selection of the PoE config flow (unifi_poe/config_flow.py,*)
(* async_step_device).                                                     *)
(***************************************************************************)
\* Device MACs: as the controller reports them, and one without separators.
DigitMac     == <<"0", "0", ":", "1", "1">>
ColonlessMac == <<"a", "a", "b", "b">>
FlowMacs     == {DeviceMac, OtherMac, DigitMac, ColonlessMac}

PortNames ==
    {<<"P", "1">>, <<"P", ":", "1">>, <<"1">>, <<"U", "p">>, <<"L", "a", "n", " ", "2">>}

PoePort(mac, idx, name) == [mac |-> mac, port_idx |-> idx, name |-> name]

PoePorts == {PoePort(m, i, n) : m \in FlowMacs, i \in Ports, n \in PortNames}

NoText == <<>>

\* f"{device_mac}:{port_idx}:{port_name}"
OptionValue(port) ==
    port.mac \o <<":">> \o Str(port.port_idx) \o <<":">> \o port.name

\* Index of the first sep in s, 0 if there is none.
FirstSep(s, sep) ==
    IF \E i \in 1..Len(s) : s[i] = sep
    THEN CHOOSE i \in 1..Len(s) : s[i] = sep /\ \A j \in 1..(i - 1) : s[j] # sep
    ELSE 0

\* s.split(sep, maxsplit)
RECURSIVE Split(_, _, _)
Split(s, sep, maxsplit) ==
    IF maxsplit = 0 \/ FirstSep(s, sep) = 0 THEN <<s>>
    ELSE <<SubSeq(s, 1, FirstSep(s, sep) - 1)>>
         \o Split(SubSeq(s, FirstSep(s, sep) + 1, Len(s)), sep, maxsplit - 1)

\* int(text) succeeds on a non-empty run of decimal digits.
IsDecimal(text) ==
    /\ text # <<>>
    /\ \A i \in 1..Len(text) : \E d \in 1..10 : DigitChars[d] = text[i]

DigitValue(c) == (CHOOSE d \in 1..10 : DigitChars[d] = c) - 1

RECURSIVE ParseInt(_)
ParseInt(text) ==
    IF Len(text) = 1 THEN DigitValue(text[1])
    ELSE 10 * ParseInt(SubSeq(text, 1, Len(text) - 1)) + DigitValue(text[Len(text)])

NoEntry == [outcome |-> "none", switch_mac |-> <<>>, port_number |-> 0,
            port_name |-> <<>>]
FlowRaised == [outcome |-> "raised", switch_mac |-> <<>>, port_number |-> 0,
               port_name |-> <<>>]

\* async_step_device with user_input: what ends up in the created entry's data.
\* int() of a non-number raises ValueError; with fewer than two parts the
\* data has no switch MAC and building the unique id raises KeyError.
StepDeviceSplitAllBug(value) ==
    LET parts == Split(value, ":", Len(value))
    IN  IF Len(parts) < 2 THEN FlowRaised
        ELSE IF ~IsDecimal(parts[2]) THEN FlowRaised
        ELSE [outcome |-> "entry", switch_mac |-> parts[1],
              port_number |-> ParseInt(parts[2]),
              port_name |-> IF Len(parts) > 2 THEN parts[3]
                            ELSE <<"P", "o", "r", "t", " ">> \o parts[2]]
StepDevice(value) ==
    LET parts == Split(value, ":", 2)
    IN  IF Len(parts) < 2 THEN FlowRaised
        ELSE IF ~IsDecimal(parts[2]) THEN FlowRaised
        ELSE [outcome |-> "entry", switch_mac |-> parts[1],
              port_number |-> ParseInt(parts[2]),
              port_name |-> IF Len(parts) > 2 THEN parts[3]
                            ELSE <<"P", "o", "r", "t", " ">> \o parts[2]]

FlowIdle ==
    /\ poe_port = PoePort(DeviceMac, 1, <<"P", "1">>)
    /\ device_port = NoText
    /\ flow_data = NoEntry

FlowInit ==
    /\ poe_port \in PoePorts
    /\ device_port = NoText
    /\ flow_data = NoEntry

\* async_step_device without input: the option built for the discovered port.
FlowShowsForm ==
    /\ device_port' = OptionValue(poe_port)
    /\ flow_data' = NoEntry
    /\ UNCHANGED <<poe_port, nokiaVars, poeVars, macVars, cryptoVars,
                   statusVars, uptimeVars, switchVars>>

\* async_step_device with the selected option.
FlowSelects ==
    /\ device_port # NoText
    /\ flow_data' = StepDevice(device_port)
    /\ UNCHANGED <<poe_port, device_port, nokiaVars, poeVars, macVars, cryptoVars,
                   statusVars, uptimeVars, switchVars>>

(***************************************************************************)
(* PART 8.  The PoE switch entity (unifi_poe/switch.py) and the data its   *)
(* coordinator holds (unifi_poe/__init__.py, async_update_data).  The      *)
(* client and the controller are the environment here: the outcome of      *)
(* set_port_poe_mode and the polled port are inputs.                       *)
(***************************************************************************)
MaxSwitchCalls == 2     \* async_turn_on / async_turn_off calls per behaviour

\* coordinator.data: None before any data, else {"device", "port", "port_idx"}
\* where "port" is None when the port is not in the port table, and the port
\* may lack "poe_mode".
NoData == [has_data |-> FALSE, has_port |-> FALSE, has_mode |-> FALSE,
           poe_mode |-> "auto"]
PortMissing == [has_data |-> TRUE, has_port |-> FALSE, has_mode |-> FALSE,
                poe_mode |-> "auto"]
PortWithoutMode == [has_data |-> TRUE, has_port |-> TRUE, has_mode |-> FALSE,
                    poe_mode |-> "auto"]
PortWithMode(m) == [has_data |-> TRUE, has_port |-> TRUE, has_mode |-> TRUE,
                    poe_mode |-> m]

\* What a successful async_update_data can return.
UpdateData == {PortMissing, PortWithoutMode} \cup {PortWithMode(m) : m \in Modes}

\* is_on reaches its poe_mode read: coordinator.data and its "port" are truthy.
IsOnReads(data) == data.has_data /\ data.has_port

\* port_data.get("poe_mode", "auto")
PolledMode(data) == IF data.has_mode THEN data.poe_mode ELSE "auto"

\* _previous_mode after is_on ran on data.
PreviousModeAfterAlwaysBug(prev, data) ==
    IF IsOnReads(data) THEN PolledMode(data) ELSE prev
PreviousModeAfter(prev, data) ==
    IF IsOnReads(data) /\ PolledMode(data) # "off" THEN PolledMode(data) ELSE prev

\* The value is_on returns.
IsOnValue(data) ==
    IF ~IsOnReads(data) THEN "None"
    ELSE IF PolledMode(data) # "off" THEN "True" ELSE "False"

SetOutcomes == {"True", "False", "raised"}

Write(op, mode, outcome, seen) ==
    [op |-> op, mode |-> mode, outcome |-> outcome, seen |-> seen]

SwitchIdle ==
    /\ previous_mode = "auto"
    /\ coordinator_data = NoData
    /\ sw_writes = <<>>
    /\ sw_seen = "none"

\* The entity is created after the coordinator's first refresh succeeded.
SwitchInit ==
    /\ previous_mode = "auto"
    /\ coordinator_data \in UpdateData
    /\ sw_writes = <<>>
    /\ sw_seen = "none"

\* The coordinator's periodic refresh; a failed update keeps the old data.
CoordinatorRefresh ==
    /\ \E d \in UpdateData \cup {coordinator_data} : coordinator_data' = d
    /\ UNCHANGED <<previous_mode, sw_writes, sw_seen, nokiaVars, poeVars, macVars,
                   cryptoVars, statusVars, uptimeVars, flowVars>>

\* The is_on property evaluated by the framework.
IsOn ==
    /\ previous_mode' = PreviousModeAfter(previous_mode, coordinator_data)
    /\ sw_seen' = IF IsOnReads(coordinator_data) /\ PolledMode(coordinator_data) # "off"
                  THEN PolledMode(coordinator_data) ELSE sw_seen
    /\ UNCHANGED <<coordinator_data, sw_writes, nokiaVars, poeVars, macVars,
                   cryptoVars, statusVars, uptimeVars, flowVars>>

\* async_turn_on: set_port_poe_mode with _previous_mode, then a refresh if it
\* returned True.
AsyncTurnOn ==
    /\ Len(sw_writes) < MaxSwitchCalls
    /\ \E o \in SetOutcomes :
        /\ sw_writes' = Append(sw_writes, Write("turn_on", previous_mode, o, sw_seen))
        /\ \E d \in UpdateData \cup {coordinator_data} :
            coordinator_data' = IF o = "True" THEN d ELSE coordinator_data
    /\ UNCHANGED <<previous_mode, sw_seen, nokiaVars, poeVars, macVars,
                   cryptoVars, statusVars, uptimeVars, flowVars>>

\* async_turn_off: set_port_poe_mode with "off", then a refresh if it returned True.
AsyncTurnOff ==
    /\ Len(sw_writes) < MaxSwitchCalls
    /\ \E o \in SetOutcomes :
        /\ sw_writes' = Append(sw_writes, Write("turn_off", "off", o, sw_seen))
        /\ \E d \in UpdateData \cup {coordinator_data} :
            coordinator_data' = IF o = "True" THEN d ELSE coordinator_data
    /\ UNCHANGED <<previous_mode, sw_seen, nokiaVars, poeVars, macVars,
                   cryptoVars, statusVars, uptimeVars, flowVars>>

\* Everything outside the reboot issuers, the PoE client, MAC normalization
\* and the payload encryption, at rest.
RestIdle ==
    /\ StatusIdle
    /\ UptimeIdle
    /\ FlowIdle
    /\ SwitchIdle

(***************************************************************************)
(* Specifications.                                                         *)
(***************************************************************************)
\* The PoE part idle: a controller nobody talks to.
PoeQuiet ==
    /\ ctl = [present |-> TRUE, mac |-> DeviceMac, has_id |-> TRUE,
              last_connection_network_id |-> "net0",
              port_overrides |-> <<>>, port_table |-> TableOf(<<>>, NumPorts)]
    /\ PoeIdle

\* The reboot issuers; the PoE part stays idle.
RebootInit ==
    /\ NokiaInit
    /\ PoeQuiet
    /\ MacIdle
    /\ CryptoIdle
    /\ RestIdle

RebootNext ==
    \/ ApiRebootCall \/ ApiLogin
    \/ ApiRebootPrimary \/ ApiRebootCommand \/ ApiRebootMaintenance
    \/ ScriptRebootCall \/ ScriptLogin
    \/ ScriptRebootPrimary \/ ScriptRebootCommand \/ ScriptRebootMaintenance
    \/ MonitorRebootCall \/ MonitorReboot

SpecReboot == RebootInit /\ [][RebootNext]_vars

\* The PoE client used as the integration uses it: one operation at a time.
PoeSeqInit ==
    /\ NokiaInit
    /\ PoeInit
    /\ MacIdle
    /\ CryptoIdle
    /\ RestIdle

PoeSeqNext ==
    \/ TaskStep("t1")
    \/ ControllerProvision

SpecPoE == PoeSeqInit /\ [][PoeSeqNext]_vars

\* Two entries of one adopted switch, each with its own client, operating at
\* once: the button or the switch of one port (task "t1"), the switch of
\* another (task "t2").
PoeTwoClientsInit ==
    /\ NokiaInit
    /\ \E list \in PoeInitOverrides :
        ctl = [present |-> TRUE, mac |-> DeviceMac, has_id |-> TRUE,
               last_connection_network_id |-> "net0",
               port_overrides |-> list, port_table |-> TableOf(list, NumPorts)]
    /\ PoeIdle
    /\ MacIdle
    /\ CryptoIdle
    /\ RestIdle

\* The steps of a switch entity's task: set_port_poe_mode and its answers.
SetStep(t) ==
    \/ StartSet(t) \/ SetFetchResume(t) \/ SetPutResume(t)
    \/ ControllerGet(t) \/ ControllerPut(t)

\* The steps of a button entity's task: restart_poe_port and its answers.
RestartStep(t) ==
    \/ StartRestart(t) \/ RestartCmdResume(t) \/ RestartFetchResume(t) \/ RestartWake(t)
    \/ SetFetchResume(t) \/ SetPutResume(t)
    \/ ControllerGet(t) \/ ControllerPut(t) \/ ControllerCmd(t)

PoeTwoClientsNext ==
    \/ RestartStep("t1") \/ StartSet("t1")
    \/ SetStep("t2")

SpecPoETwoClients == PoeTwoClientsInit /\ [][PoeTwoClientsNext]_vars

\* The cellular clients: reboots and status reads, one operation at a time.
NokiaNext ==
    \/ RebootNext
    \/ ApiStatusRead
    \/ MonitorStatusRead

SpecNokia == RebootInit /\ [][NokiaNext]_vars

\* MAC normalization on every drawn argument.
MacSpecInit ==
    /\ NokiaInit
    /\ PoeQuiet
    /\ MacInit
    /\ CryptoIdle
    /\ RestIdle

MacNext ==
    \/ GetNormalizes \/ SetNormalizes \/ RestartNormalizes
    \/ GetNormalizesAgain
    \/ Respell

SpecMac == MacSpecInit /\ [][MacNext]_vars

\* Encryption and decryption by two clients.
CryptoSpecInit ==
    /\ NokiaInit
    /\ PoeQuiet
    /\ MacIdle
    /\ CryptoInit
    /\ RestIdle

CryptoNext ==
    \/ ClientEncrypts
    \/ DeviceSends
    \/ ClientDecrypts

SpecCrypto == CryptoSpecInit /\ [][CryptoNext]_vars

\* The status accessors on every status the device can answer.
StatusSpecInit ==
    /\ NokiaInit
    /\ PoeQuiet
    /\ MacIdle
    /\ CryptoIdle
    /\ StatusIdle
    /\ UptimeIdle
    /\ FlowIdle
    /\ SwitchIdle

StatusNext ==
    \/ ApiGetDeviceInfo \/ ApiGetWanInfo \/ ApiGetCellularStats
    \/ ApiGetConnectedDevices
    \/ ApiGetAllStatus

SpecStatus == StatusSpecInit /\ [][StatusNext]_vars

\* format_uptime of the sensor platform and of the monitor script.
UptimeSpecInit ==
    /\ NokiaInit
    /\ PoeQuiet
    /\ MacIdle
    /\ CryptoIdle
    /\ StatusIdle
    /\ UptimeInit
    /\ FlowIdle
    /\ SwitchIdle

UptimeNext ==
    \/ SensorFormats
    \/ MonitorFormats

SpecUptime == UptimeSpecInit /\ [][UptimeNext]_vars

\* The config flow's port selection on every discovered port.
FlowSpecInit ==
    /\ NokiaInit
    /\ PoeQuiet
    /\ MacIdle
    /\ CryptoIdle
    /\ StatusIdle
    /\ UptimeIdle
    /\ FlowInit
    /\ SwitchIdle

FlowNext ==
    \/ FlowShowsForm
    \/ FlowSelects

SpecFlow == FlowSpecInit /\ [][FlowNext]_vars

\* One switch entity and its coordinator.
SwitchNext ==
    \/ CoordinatorRefresh
    \/ IsOn
    \/ AsyncTurnOn \/ AsyncTurnOff

SwitchSpecInit ==
    /\ NokiaInit
    /\ PoeQuiet
    /\ MacIdle
    /\ CryptoIdle
    /\ StatusIdle
    /\ UptimeIdle
    /\ FlowIdle
    /\ SwitchInit

SpecSwitch == SwitchSpecInit /\ [][SwitchNext]_vars

\* The steps of a coordinator poll: get_device_by_mac and its answer.
PollStep(t) ==
    \/ StartGet(t) \/ GetResume(t)
    \/ ControllerGet(t)

\* One entry of an adopted switch: its switch entity's set_port_poe_mode (task
\* "t1") and its coordinator's poll (task "t3") share the entry's client.
PoeSharedClientNext ==
    \/ SetStep("t1")
    \/ PollStep("t3")

SpecPoESharedClient == PoeTwoClientsInit /\ [][PoeSharedClientNext]_vars

\* The button entity's restart_poe_port alone, on every controller state.
PoeRestartNext ==
    \/ RestartStep("t1")
    \/ ControllerProvision

SpecPoERestart == PoeSeqInit /\ [][PoeRestartNext]_vars

Spec == SpecPoE

(***************************************************************************)
(* Properties of the reboot issuers (checked under SpecReboot).            *)
(***************************************************************************)
ChainOrder == <<EpReboot, EpCommand, EpMaintenance>>

\* An endpoint "reported success": 200 for the first endpoint, a status in
\* {200, 202, 204} for the second and the third.
ReportedSuccess(p) ==
    /\ p.out.kind = "response"
    /\ IF p.ep = EpReboot THEN p.out.status = 200 ELSE p.out.status \in {200, 202, 204}

LastRebootPost == RebootPosts[Len(RebootPosts)]

\* The reboot POSTs go to the candidate endpoints in their order.
ChainInOrder ==
    /\ Len(RebootPosts) <= 3
    /\ \A i \in 1..Len(RebootPosts) : RebootPosts[i].ep = ChainOrder[i]

\* No reboot POST follows one that reported success.
NoPostAfterSuccess ==
    \A i \in 1..(Len(RebootPosts) - 1) : ~ReportedSuccess(RebootPosts[i])

AllThreeRefused ==
    /\ Len(RebootPosts) = 3
    /\ \A i \in 1..3 : RebootPosts[i].out.kind = "response" /\ ~ReportedSuccess(RebootPosts[i])

\* C1 as stated: NokiaFastMileAPI.reboot_device POSTs to reboot_web_app.cgi,
\* command_web_app.cgi, maintenance_web_app.cgi in this order, sends no reboot
\* POST after an endpoint reported success, and returns False only after all
\* three endpoints were attempted and none accepted.
C1_Original ==
    impl = "api" =>
        /\ ChainInOrder
        /\ NoPostAfterSuccess
        /\ (result = "False" => AllThreeRefused)

\* C1 as amended: the order and the stop at the first success as stated;
\* reboot_device returns False only after all three endpoints were attempted
\* and none accepted, or after a reboot POST raised a request exception that
\* is neither a timeout nor a connection error.
C1_OrderedChain ==
    impl = "api" =>
        /\ ChainInOrder
        /\ NoPostAfterSuccess
        /\ (result = "False" =>
                \/ AllThreeRefused
                \/ /\ Len(RebootPosts) >= 1
                   /\ LastRebootPost.out.kind = "RequestException")

C1_Witness ==
    /\ impl = "api" /\ pc = "done" /\ result = "False"
    /\ AllThreeRefused

\* C2: when the primary endpoint answers 404 and the command endpoint answers
\* 202, NokiaFastMileAPI.reboot_device attempts the command endpoint, returns
\* True and never contacts the maintenance endpoint.
C2_SecondEndpointAccepted ==
    (/\ impl = "api" /\ pc = "done"
     /\ Len(RebootPosts) >= 1
     /\ RebootPosts[1].out.kind = "response" /\ RebootPosts[1].out.status = 404
     /\ (Len(RebootPosts) >= 2 =>
            RebootPosts[2].out.kind = "response" /\ RebootPosts[2].out.status = 202))
    => /\ Len(RebootPosts) = 2
       /\ RebootPosts[2].ep = EpCommand
       /\ result = "True"

C2_Witness ==
    /\ impl = "api" /\ pc = "done" /\ result = "True"
    /\ Len(RebootPosts) = 2
    /\ RebootPosts[1].out.status = 404
    /\ RebootPosts[2].ep = EpCommand /\ RebootPosts[2].out.status = 202

\* C3: when the first reboot POST of NokiaFastMileAPI.reboot_device raises
\* ConnectionError, the operation returns True and sends no POST to the command
\* or maintenance endpoints.
C3_ConnectionErrorPresumed ==
    (/\ impl = "api"
     /\ Len(RebootPosts) >= 1
     /\ RebootPosts[1].out.kind = "ConnectionError")
    => /\ Len(RebootPosts) = 1
       /\ pc = "done"
       /\ result = "True"

C3_Witness ==
    /\ impl = "api" /\ pc = "done" /\ result = "True"
    /\ RebootPosts = <<Post(EpReboot, Raised("ConnectionError"))>>

\* C4: in every reboot implementation a timeout or connection error raised by
\* a reboot POST makes the operation report success (True).
C4_PresumedSuccessEverywhere ==
    (/\ pc = "done"
     /\ \E i \in 1..Len(RebootPosts) : RebootPosts[i].out.kind \in {"Timeout", "ConnectionError"})
    => result = "True"

\* C5: for the primary endpoint only the status decides (API client and
\* standalone script): every 200 yields True whatever the body, every other
\* status falls through to the command endpoint.
C5_PrimaryStatusOnly ==
    (/\ impl \in {"api", "script"}
     /\ Len(RebootPosts) >= 1
     /\ RebootPosts[1].out.kind = "response")
    => IF RebootPosts[1].out.status = 200
       THEN Len(RebootPosts) = 1 /\ pc = "done" /\ result = "True"
       ELSE /\ Len(RebootPosts) = 1 => (pc = "command" /\ result = "none")
            /\ Len(RebootPosts) >= 2 => RebootPosts[2].ep = EpCommand

C5_Witness ==
    /\ impl = "api" /\ pc = "done" /\ result = "True"
    /\ RebootPosts = <<Post(EpReboot, Response(200, "other"))>>

(***************************************************************************)
(* Properties of the PoE client (checked under SpecPoE).                   *)
(***************************************************************************)
\* An API-level error met by the operation of task t.
ApiErrorMet(t) == loc[t].failed # ""

\* C6: set_port_poe_mode returns False and never raises on any API-level
\* error (an error answer to the device re-fetch, a device not found or
\* without _id, an error answer to the PUT).
C6_SetReturnsFalseOnError ==
    \A t \in Tasks :
        (top[t].op = "set" /\ tpc[t] = "done" /\ ApiErrorMet(t)) => tres[t] = "False"

\* The PUT events of a log, and the last event of a log.
IsPut(e) == e.ev = "PUT"
Puts(t) == SelectSeq(tlog[t], IsPut)
LastEvent(t) == tlog[t][Len(tlog[t])]

\* At most one entry per port_idx.
OnePerPort(list) ==
    \A i, j \in 1..Len(list) : i # j => list[i].port_idx # list[j].port_idx

\* C7: with no entry for port_idx in the fetched device the PUT list is the
\* device's list, unchanged and in order, plus one appended entry carrying the
\* requested port_idx and poe_mode; with an entry for port_idx the PUT list has
\* the same length and differs only in that entry's poe_mode.
C7_PutListFrame ==
    \A t \in Tasks :
        tpc[t] = "set_put" =>
            LET old  == loc[t].device.port_overrides
                new  == LastEvent(t).body
                port == loc[t].port
                mode == loc[t].mode
            IN  /\ LastEvent(t).ev = "PUT"
                /\ IF \A i \in 1..Len(old) : old[i].port_idx # port
                   THEN /\ Len(new) = Len(old) + 1
                        /\ \A i \in 1..Len(old) : new[i] = old[i]
                        /\ new[Len(new)].port_idx = port
                        /\ new[Len(new)].poe_mode = mode
                   ELSE /\ Len(new) = Len(old)
                        /\ \E i \in 1..Len(old) :
                            /\ old[i].port_idx = port
                            /\ new[i] = [old[i] EXCEPT !.poe_mode = mode]
                            /\ \A j \in 1..Len(old) : j # i => new[j] = old[j]

C7_Witness ==
    /\ tpc["t1"] = "set_put"
    /\ Len(loc["t1"].device.port_overrides) >= 1
    /\ \A i \in 1..Len(loc["t1"].device.port_overrides) :
            loc["t1"].device.port_overrides[i].port_idx # loc["t1"].port
    /\ loc["t1"].mode = "off"

\* C8: the controller's list starting with at most one entry per port_idx,
\* after any sequence of set_port_poe_mode and restart_poe_port calls every
\* list PUT by the client (and so the controller's list) has at most one entry
\* per port_idx.
C8_OneOverridePerPort ==
    /\ OnePerPort(ctl.port_overrides)
    /\ \A t \in Tasks : \A i \in 1..Len(Puts(t)) : OnePerPort(Puts(t)[i].body)

C8_Witness ==
    /\ ops = MaxOps
    /\ top["t1"].op = "restart" /\ tres["t1"] = "True"
    /\ Len(Puts("t1")) = 2
    /\ Len(Puts("t1")[2].body) = 2
    /\ ctl.port_overrides = Puts("t1")[2].body

\* The set_port_poe_mode calls and the delay wait of a log.
IsCallOrWait(e) == e.ev \in {"set", "sleep", "wake"}
CallsAndWaits(t) == SelectSeq(tlog[t], IsCallOrWait)

\* The mode of a port as a port table shows it.
ObservedMode(table, port) ==
    IF \E i \in 1..Len(table) : table[i].port_idx = port /\ table[i].poe_mode # "absent"
    THEN LET i == CHOOSE k \in 1..Len(table) : table[k].port_idx = port IN table[i].poe_mode
    ELSE "auto"

\* C9: restart_poe_port: with meta.rc = "ok" it returns True and issues no
\* device fetch and no PUT; with meta.rc = "error" and the later steps
\* succeeding, exactly one set_port_poe_mode("off") and then exactly one
\* set_port_poe_mode(mode observed in the port table before the off) occur,
\* the delay wait strictly between them.
C9_RestartSequence ==
    \A t \in Tasks :
        top[t].op = "restart" =>
            /\ loc[t].cmd = "ok" =>
                  /\ tpc[t] = "done" /\ tres[t] = "True"
                  /\ tlog[t] = <<Ev("POST", 0, "", <<>>)>>
            /\ (loc[t].cmd = "error" /\ tres[t] = "True") =>
                  CallsAndWaits(t) =
                      << Ev("set", top[t].port, "off", <<>>),
                         Ev("sleep", 0, "", <<>>),
                         Ev("wake", 0, "", <<>>),
                         Ev("set", top[t].port, ObservedMode(loc[t].port_table, top[t].port), <<>>) >>

C9_Witness ==
    /\ top["t1"].op = "restart" /\ tpc["t1"] = "done" /\ tres["t1"] = "True"
    /\ loc["t1"].cmd = "error"
    /\ ObservedMode(loc["t1"].port_table, top["t1"].port) = "pasv24"

\* C10: in the fallback of restart_poe_port any failing step (the device
\* re-fetch, the device lookup, the "off" write, the "on" write) makes
\* restart_poe_port return False rather than raise.
C10_FallbackFailureReturnsFalse ==
    \A t \in Tasks :
        (top[t].op = "restart" /\ tpc[t] = "done" /\ ApiErrorMet(t)) => tres[t] = "False"

(***************************************************************************)
(* Properties of the device cache (checked under SpecPoE).                 *)
(***************************************************************************)
\* The operation of task t has sent a mutating request (the PUT of
\* set_port_poe_mode or the power-cycle POST of restart_poe_port).
IsMutation(e) == e.ev \in {"PUT", "POST"}
Mutated(t) == SelectSeq(tlog[t], IsMutation) # <<>>

\* The client of task t holds a cached record of the switch.
Cached(t) == cache[ClientOf(t)][Mac].present

\* C11: the cached record of the device is absent from the cache while a
\* mutating request (the PUT of set_port_poe_mode, the power-cycle POST of
\* restart_poe_port) is in flight, and after an operation that sent one has
\* completed, whether the request succeeded or failed.
C11_CacheClearedAroundMutation ==
    \A t \in Tasks :
        \/ req[t].method \in {"PUT", "POST"}
        \/ (tpc[t] = "done" /\ Mutated(t))
        => ~Cached(t)

\* A step in which task t calls get_device_by_mac as an operation of its own.
GetCalled(t) == ops' = ops + 1 /\ top'[t].op = "get" /\ tpc[t] \in {"idle", "done"}

\* A step in which get_device_by_mac of task t takes the answer to its GET.
GetAnswered(t) == tpc[t] = "get_fetch" /\ tpc'[t] = "done" /\ tres'[t] # "raised"

\* C12: get_device_by_mac issues a GET of the device list if and only if the
\* normalized MAC is absent from the cache; on a hit it returns the cached
\* record with no HTTP request and leaves the cache as it is; a cached record
\* changes only by being removed by set_port_poe_mode or by the fallback of
\* restart_poe_port; on a miss every returned device is stored under its
\* lowercased MAC and the entry of the normalized MAC is returned, None if
\* the list does not contain it.
C12_CacheHitOrFetch ==
    [][\A t \in Tasks :
        LET c == ClientOf(t) IN
        /\ GetCalled(t) =>
              /\ (req'[t].method = "GET") <=> ~cache[c][Mac].present
              /\ (tlog'[t] # <<>>) <=> ~cache[c][Mac].present
              /\ cache[c][Mac].present =>
                    /\ tpc'[t] = "done" /\ tres'[t] = "device"
                    /\ loc'[t].device = cache[c][Mac]
                    /\ cache' = cache
        /\ (cache[c][Mac].present /\ cache'[c][Mac] # cache[c][Mac]) =>
              /\ ~cache'[c][Mac].present
              /\ \E u \in Tasks :
                    /\ ClientOf(u) = c
                    /\ \/ top'[u].op = "set"
                       \/ top'[u].op = "restart" /\ loc'[u].cmd \notin {"", "ok"}
        /\ GetAnswered(t) =>
              /\ \A i \in 1..Len(resp[t].data) :
                    cache'[c][Lower(resp[t].data[i].mac)] = resp[t].data[i]
              /\ loc'[t].device = cache'[c][Mac]
              /\ tres'[t] = (IF \E i \in 1..Len(resp[t].data) : Lower(resp[t].data[i].mac) = Mac
                             THEN "device" ELSE "None")
    ]_vars

\* A second get_device_by_mac was served from the cache filled by the first.
C12_Witness ==
    /\ ops = 2 /\ top["t1"].op = "get" /\ tpc["t1"] = "done"
    /\ tlog["t1"] = <<>> /\ tres["t1"] = "device"
    /\ loc["t1"].device = cache["c1"][Mac]
    /\ cache["c1"][Lower(OtherMac)] = OtherDevice

(***************************************************************************)
(* Properties of the MAC normalization (checked under SpecMac).            *)
(***************************************************************************)
\* C13: MAC normalization is idempotent (the key of a key is that key); the
\* keys that get_device_by_mac, set_port_poe_mode and restart_poe_port compute
\* are the same, also when they were given different separator/case spellings
\* of one address; every spelling of AA-BB-CC-DD-EE-FF has the key
\* aa:bb:cc:dd:ee:ff.
C13_NormalizationIdempotent ==
    /\ mac_again.done => mac_again.key = mac_key["get"].key
    /\ \A s1, s2 \in Sites :
          (mac_key[s1].done /\ mac_key[s2].done) => mac_key[s1].key = mac_key[s2].key
    /\ \A s \in Sites :
          (mac_key[s].done /\ SameAddress(mac_arg, MacExampleUpper)) =>
              mac_key[s].key = MacExampleLower

C13_Witness ==
    /\ mac_arg = MacExampleUpper
    /\ \A s \in Sites : mac_key[s] = KeyOf(MacExampleLower)
    /\ mac_again = KeyOf(MacExampleLower)

(***************************************************************************)
(* Properties of the entities (checked under SpecPoE).                     *)
(***************************************************************************)
\* C14: UniFiPoESwitch.async_turn_on / async_turn_off (around
\* set_port_poe_mode) and UniFiPoEButton.async_press (around
\* restart_poe_port) always complete without raising, whatever the
\* controller answers.
C14_EntityActionsNeverRaise ==
    \A t \in Tasks :
        tpc[t] = "done" =>
            /\ top[t].op = "set" => SwitchTurnOutcome(tres[t]) = "completed"
            /\ top[t].op = "restart" => ButtonPressOutcome(tres[t]) = "completed"

(***************************************************************************)
(* Properties of concurrent operations (checked under SpecPoETwoClients).  *)
(***************************************************************************)
\* The controller's override list holds the poe_mode that task t wrote last.
HoldsChange(t) ==
    \E i \in 1..Len(ctl.port_overrides) :
        /\ ctl.port_overrides[i].port_idx = loc[t].port
        /\ ctl.port_overrides[i].poe_mode = loc[t].mode

\* The last set_port_poe_mode of task t (called directly or by the restart
\* fallback) had its PUT accepted.
ChangeAccepted(t) ==
    /\ tpc[t] = "done" /\ tres[t] = "True"
    /\ top[t].op \in {"set", "restart"}
    /\ tlog[t] # <<>> /\ LastEvent(t).ev = "PUT"

\* C15: for every interleaving of two set_port_poe_mode operations on
\* different ports of the same device, each through its own client, the
\* controller's final override list contains the poe_mode change of both.
C15_NoLostUpdate ==
    \A t, u \in Tasks :
        (/\ ClientOf(t) # ClientOf(u)
         /\ ChangeAccepted(t) /\ ChangeAccepted(u)
         /\ loc[t].port # loc[u].port)
        => (HoldsChange(t) /\ HoldsChange(u))

(***************************************************************************)
(* Properties of the login and of the requests of the cellular client      *)
(* (checked under SpecNokia).                                              *)
(***************************************************************************)
\* The login POSTs of the running operation.
IsLoginPost(p) == p.ep = EpLogin
LoginPosts == SelectSeq(posts, IsLoginPost)

\* The client holds a session: _ensure_session returns True without _login.
SessionEstablished == session_id # "none"

\* C16: after a login attempt that succeeded (HTTP 200: with a session cookie,
\* with a session id in the JSON body, or with neither) the client is in
\* SESSION_ESTABLISHED, where _ensure_session sends no login POST; after a
\* failed attempt (another status, a request exception) it is in NO_SESSION.
C16_LoginStateMachine ==
    /\ logged_in = "True" => SessionEstablished
    /\ logged_in = "False" => ~SessionEstablished

\* The running operation has sent a request other than a login POST.
RequestSent == \E i \in 1..Len(posts) : posts[i].ep # EpLogin

\* C17 as stated: each request operation of the cellular client (a status
\* read through _make_request as well as reboot_device) calls ensure-session
\* exactly once before sending its request, and one ensure-session call sends
\* at most one login POST.
C17_Original ==
    impl \in {"api", "api_status"} =>
        /\ RequestSent => ensured = 1
        /\ Len(LoginPosts) <= ensured

\* C17 as amended: reboot_device calls ensure-session exactly once, before its
\* first reboot POST, and that call sends at most one login POST: one when no
\* session id is stored, none otherwise; a status read through _make_request
\* sends its one request without calling ensure-session and without a login
\* POST.
C17_EnsureOncePerReboot ==
    /\ [](impl = "api" =>
            /\ ensured = 1
            /\ Len(LoginPosts) <= 1
            /\ \A i \in 1..Len(posts) : posts[i].ep = EpLogin => i = 1
            /\ pc = "login" => posts = <<>>)
    /\ [](impl = "api_status" =>
            /\ ensured = 0
            /\ LoginPosts = <<>>
            /\ Len(posts) = 1)
    /\ [][(impl' = "api" /\ calls' = calls + 1) =>
            /\ posts' = <<>>
            /\ (pc' = "login") <=> (session_id = "none")
            /\ (pc' = "primary") <=> (session_id # "none")]_vars

\* A second reboot_device logged in again, once, and went on to the chain.
C17_Witness ==
    /\ impl = "api" /\ pc = "done" /\ calls = 2
    /\ ensured = 1
    /\ Len(LoginPosts) = 1 /\ posts[1].ep = EpLogin
    /\ Len(RebootPosts) = 3

\* C18: after every login attempt that returns True the shared secret is
\* set: derived from the server's public value when the response carries
\* one, and otherwise (body not JSON, JSON without 'pubkey', session id taken
\* from the body) the hash of the plaintext password.
C18_SecretSetAfterLogin ==
    (/\ impl = "api"
     /\ LoginPosts # <<>>
     /\ LoginReturns(LoginPosts[1].out) = "True")
    => shared_secret = (IF HasPubkey(LoginPosts[1].out.body) THEN "derived" ELSE "password")

(***************************************************************************)
(* Properties of the payload encryption (checked under SpecCrypto).        *)
(***************************************************************************)
\* C19: _decrypt_response decrypts with the client's stored shared secret: a
\* client decrypts a message successfully only if it was sealed under its
\* secret, and two clients holding different secrets never both decrypt the
\* same message successfully.
C19_DecryptUsesStoredSecret ==
    /\ \A c \in CryptoClients :
          crypto_out[c] = "dict" => crypto_msg.ct.key = crypto_secret[c]
    /\ \A a, b \in CryptoClients :
          crypto_secret[a] # crypto_secret[b] =>
              ~(crypto_out[a] = "dict" /\ crypto_out[b] = "dict")

\* A status read (of the API client or of the monitor) has returned.
ReadDone == impl \in {"api_status", "monitor_status"} /\ pc = "done"

\* The request of the status read failed: a request exception, or a status
\* that raise_for_status turns into one.
ReadFailed == posts[1].out.kind # "response" \/ posts[1].out.status >= 400

FirstOrNone(arr) ==
    IF arr.present /\ Len(arr.items) > 0 THEN PyItem(arr.items[1]) ELSE PyNone

\* The call was one of the four extraction accessors.
AccessorCalled ==
    st_call \in {"get_device_info", "get_wan_info", "get_cellular_stats",
                 "get_connected_devices"}

DictKeys(d) == {e.key : e \in d.entries}

ValuesAt(d, k) == {e.value : e \in {x \in d.entries : x.key = k}}

\* C21 as stated: on a parsed snapshot every extraction accessor returns the
\* first element of a section array it reads, or None if that array is absent
\* or empty.
C21_Original ==
    (AccessorCalled /\ st_gets[1].kind = "dict") =>
        LET s == st_gets[1] IN
        /\ st_call = "get_device_info" => st_ret = FirstOrNone(s.device_info)
        /\ st_call = "get_wan_info" =>
              st_ret \in {FirstOrNone(s.wan_conns), FirstOrNone(s.wan_ip_status)}
        /\ st_call = "get_cellular_stats" =>
              st_ret \in {FirstOrNone(s.cell_5G_stats_cfg),
                          FirstOrNone(s.cell_LTE_stats_cfg), FirstOrNone(s.WAN)}
        /\ st_call = "get_connected_devices" => st_ret = FirstOrNone(s.device_cfg)

\* C21 (amended): every accessor returns None on a falsy status.  On any other
\* status get_device_info returns the first element of device_info or None;
\* get_connected_devices returns the whole device_cfg list, None if it is
\* absent or empty; get_wan_info returns a mapping with "connection" (first
\* ipConns element of the first wan_conns element) and "status" (first
\* wan_ip_status element), each only if present, None if neither is;
\* get_cellular_stats returns a mapping, possibly empty and never None, with
\* "5g" and "lte" (the "stat" of the first element, {} if it has none) and
\* "wan_mode" (first WAN element), each only if its array is non-empty.
C21_AccessorResults ==
    AccessorCalled =>
        LET s == st_gets[1]
            falsy == s.kind \in {"None", "empty"}
            conn == /\ s.wan_conns.present /\ s.wan_conns.items # <<>>
                    /\ s.wan_conns.items[1].ipConns.present
                    /\ s.wan_conns.items[1].ipConns.items # <<>>
            stat == s.wan_ip_status.present /\ s.wan_ip_status.items # <<>>
            has5g == s.cell_5G_stats_cfg.present /\ s.cell_5G_stats_cfg.items # <<>>
            haslte == s.cell_LTE_stats_cfg.present /\ s.cell_LTE_stats_cfg.items # <<>>
            haswan == s.WAN.present /\ s.WAN.items # <<>>
            StatOf(e) == IF e.has_stat THEN e.stat ELSE "{}"
        IN
        /\ Len(st_gets) = 1
        /\ falsy => st_ret = PyNone
        /\ (~falsy /\ st_call = "get_device_info") =>
              st_ret = FirstOrNone(s.device_info)
        /\ (~falsy /\ st_call = "get_connected_devices") =>
              st_ret = IF s.device_cfg.present /\ Len(s.device_cfg.items) > 0
                       THEN PyList(s.device_cfg.items) ELSE PyNone
        /\ (~falsy /\ st_call = "get_wan_info") =>
              IF ~conn /\ ~stat THEN st_ret = PyNone
              ELSE /\ st_ret.py = "dict"
                   /\ DictKeys(st_ret) = (IF conn THEN {"connection"} ELSE {})
                                     \cup (IF stat THEN {"status"} ELSE {})
                   /\ conn => ValuesAt(st_ret, "connection")
                                = {s.wan_conns.items[1].ipConns.items[1]}
                   /\ stat => ValuesAt(st_ret, "status") = {s.wan_ip_status.items[1]}
        /\ (~falsy /\ st_call = "get_cellular_stats") =>
              /\ st_ret.py = "dict"
              /\ DictKeys(st_ret) = (IF has5g THEN {"5g"} ELSE {})
                                \cup (IF haslte THEN {"lte"} ELSE {})
                                \cup (IF haswan THEN {"wan_mode"} ELSE {})
              /\ has5g => ValuesAt(st_ret, "5g") = {StatOf(s.cell_5G_stats_cfg.items[1])}
              /\ haslte => ValuesAt(st_ret, "lte") = {StatOf(s.cell_LTE_stats_cfg.items[1])}
              /\ haswan => ValuesAt(st_ret, "wan_mode") = {s.WAN.items[1]}

\* get_connected_devices returned a list of more than one device, and
\* get_cellular_stats would return the empty mapping on the same snapshot.
C21_Witness ==
    /\ st_call = "get_connected_devices"
    /\ st_gets[1].kind = "dict"
    /\ Len(st_gets[1].device_cfg.items) = MaxItems
    /\ st_ret = PyList(st_gets[1].device_cfg.items)
    /\ ~st_gets[1].WAN.present
    /\ ~st_gets[1].cell_5G_stats_cfg.present
    /\ ~st_gets[1].cell_LTE_stats_cfg.present

\* One get_all_status call ran.
AllStatusCalled == st_call = "get_all_status"

\* C30: every extraction accessor issues exactly one GET of the prelogin
\* status per call; get_all_status issues exactly four, and each section of
\* its result is what the section's accessor makes of its own GET, the
\* first for device_info, the second for wan_info, the third for
\* cellular_stats, the fourth for connected_devices; when all four fetches
\* returned None, the four values are all None.
C30_OneGetPerAccessor ==
    /\ AccessorCalled => Len(st_gets) = 1
    /\ (AccessorCalled /\ st_gets[1] = StatusNone) => st_ret = PyNone
    /\ AllStatusCalled =>
        /\ Len(st_gets) = 4
        /\ st_ret.device_info = GetDeviceInfo(st_gets[1])
        /\ st_ret.wan_info = GetWanInfo(st_gets[2])
        /\ st_ret.cellular_stats = GetCellularStats(st_gets[3])
        /\ st_ret.connected_devices = GetConnectedDevices(st_gets[4])
        /\ (\A i \in 1..4 : st_gets[i] = StatusNone) =>
              /\ st_ret.device_info = PyNone
              /\ st_ret.wan_info = PyNone
              /\ st_ret.cellular_stats = PyNone
              /\ st_ret.connected_devices = PyNone

\* A get_all_status whose sections come from different snapshots: the device
\* info from a snapshot with one element per section, the connected devices
\* from a later one with more.
C30_Witness ==
    /\ AllStatusCalled
    /\ st_gets[1] = FullSnapshot(1)
    /\ st_gets[4] = FullSnapshot(MaxItems)
    /\ st_ret.device_info = PyItem("first")
    /\ st_ret.connected_devices = PyList(SubSeq(ItemNames, 1, MaxItems))

(***************************************************************************)
(* Properties of format_uptime (checked under SpecUptime).                 *)
(***************************************************************************)
ZeroDaysHoursMinutes == <<"0", "d", " ", "0", "h", " ", "0", "m">>

\* C22 as stated: format_uptime(0) returns "0d 0h 0m".
C22_Original ==
    (seconds = 0 /\ up_impl # "none") => up_text = ZeroDaysHoursMinutes

\* C22 (amended): for 0 the sensor platform's format_uptime returns "Unknown"
\* and the monitor script's returns "0d 0h 0m 0s".
C22_ZeroUptime ==
    /\ (seconds = 0 /\ up_impl = "sensor") => up_text = Unknown
    /\ (seconds = 0 /\ up_impl = "monitor") =>
          up_text = ZeroDaysHoursMinutes \o <<" ", "0", "s">>

C22_Witness ==
    /\ seconds = 0
    /\ up_impl = "sensor"
    /\ up_text = <<"U", "n", "k", "n", "o", "w", "n">>

\* C23: for every s >= 1 the sensor platform's format_uptime(s) is
\* "{D}d {H}h {M}m" with D = s div 86400, H = (s mod 86400) div 3600 and
\* M = (s mod 3600) div 60, so 0 <= H < 24, 0 <= M < 60 and
\* 86400 D + 3600 H + 60 M <= s < 86400 D + 3600 H + 60 M + 60; and
\* format_uptime(90061) is "1d 1h 1m".
C23_UptimeTruncatesToMinutes ==
    (up_impl = "sensor" /\ seconds >= 1) =>
        LET D == seconds \div 86400
            H == (seconds % 86400) \div 3600
            M == (seconds % 3600) \div 60
        IN  /\ up_text = Str(D) \o <<"d", " ">> \o Str(H) \o <<"h", " ">>
                         \o Str(M) \o <<"m">>
            /\ 0 <= H /\ H < 24
            /\ 0 <= M /\ M < 60
            /\ 86400 * D + 3600 * H + 60 * M <= seconds
            /\ seconds < 86400 * D + 3600 * H + 60 * M + 60
            /\ seconds = 90061 =>
                  up_text = <<"1", "d", " ", "1", "h", " ", "1", "m">>

C23_Witness ==
    /\ up_impl = "sensor"
    /\ seconds = 90061
    /\ up_text = <<"1", "d", " ", "1", "h", " ", "1", "m">>

(***************************************************************************)
(* Properties of the config flow's port selection (checked under SpecFlow).*)
(***************************************************************************)
\* C25: the option value mac:port_idx:port_name round-trips: parsing the
\* selected value recovers the device MAC as the switch MAC, the port index
\* as the integer port number and the port name as the port name.
C25_OptionRoundTrips ==
    flow_data # NoEntry =>
        /\ flow_data.outcome = "entry"
        /\ flow_data.switch_mac = poe_port.mac
        /\ flow_data.port_number = poe_port.port_idx
        /\ flow_data.port_name = poe_port.name

(***************************************************************************)
(* Properties of the cellular client's login and session (checked under    *)
(* SpecNokia).                                                             *)
(***************************************************************************)
\* The running reboot made a login attempt and it failed: a status other than
\* 200, or a request exception (timeout, connection error or another).
LoginFailed ==
    /\ LoginPosts # <<>>
    /\ \/ LoginPosts[1].out.kind # "response"
       \/ LoginPosts[1].out.status # 200

\* What the reboot POSTs alone say: presumed success on a timeout or a
\* connection error, else the success test of the last POST.
RebootVerdict ==
    IF LastRebootPost.out.kind \in {"Timeout", "ConnectionError"} THEN "True"
    ELSE IF ReportedSuccess(LastRebootPost) THEN "True"
    ELSE "False"

\* C24: when the login attempt of reboot_device fails (non-200 status or any
\* request exception), the operation goes on: its next request is the reboot
\* POST to the primary endpoint, and once it has returned, its result is what
\* the reboot POSTs alone decide.
C24_RebootProceedsWithoutLogin ==
    (impl \in {"api", "script"} /\ LoginFailed) =>
        /\ RebootPosts = <<>> => (pc = "primary" /\ result = "none")
        /\ RebootPosts # <<>> => RebootPosts[1].ep = EpReboot
        /\ pc = "done" => (RebootPosts # <<>> /\ result = RebootVerdict)

\* A login that timed out, then a reboot accepted by the primary endpoint.
C24_Witness ==
    /\ impl = "api" /\ pc = "done" /\ result = "True"
    /\ LoginPosts # <<>> /\ LoginPosts[1].out.kind = "Timeout"
    /\ Len(RebootPosts) = 1
    /\ RebootPosts[1].ep = EpReboot
    /\ RebootPosts[1].out.kind = "response" /\ RebootPosts[1].out.status = 200

\* C29: the cellular client's session id, once set by a login, is never
\* cleared or replaced, and no step of a later operation of the client sends
\* a login POST while the id is set.
C29_SessionIdNeverCleared ==
    /\ [][session_id # "none" => session_id' = session_id]_vars
    /\ [][(session_id # "none" /\ impl' \in {"api", "api_status"})
            => Len(LoginPosts') <= Len(LoginPosts)]_vars

\* A second reboot_device on a client that holds a session: it has finished
\* without a login POST.
C29_Witness ==
    /\ impl = "api" /\ calls = 2 /\ pc = "done"
    /\ session_id # "none"
    /\ LoginPosts = <<>>
    /\ RebootPosts # <<>>

(***************************************************************************)
(* Properties of a poll concurrent with a write on one client (checked     *)
(* under SpecPoESharedClient).                                             *)
(***************************************************************************)
\* The switch entity's write has returned True and the poll has completed.
SetAndPollDone ==
    /\ tpc["t1"] = "done" /\ top["t1"].op = "set" /\ tres["t1"] = "True"
    /\ tpc["t3"] = "done" /\ top["t3"].op = "get"

\* C26: with a get_device_by_mac fetch in flight concurrently with
\* set_port_poe_mode on the same client, once the write has returned True and
\* the fetch has completed, the client's cache holds no record of the device
\* from before the PUT: a cached record carries the overrides the controller
\* holds now.
C26_NoStaleRecordAfterSet ==
    (SetAndPollDone /\ cache["c1"][Mac].present) =>
        cache["c1"][Mac].port_overrides = ctl.port_overrides

(***************************************************************************)
(* Properties of the PoE switch entity (checked under SpecSwitch).         *)
(***************************************************************************)
IsTurnOn(w) == w.op = "turn_on"

\* C27: _previous_mode is never "off": it starts as "auto" and changes only
\* when is_on is evaluated, to a polled poe_mode other than "off" ("auto"
\* standing for a port that reports none); so
\* async_turn_on never writes "off" and always writes the most recent mode
\* other than "off" that is_on read, or "auto" if it read none.
C27_PreviousModeNeverOff ==
    /\ [](/\ previous_mode # "off"
          /\ previous_mode = (IF sw_seen = "none" THEN "auto" ELSE sw_seen)
          /\ \A i \in 1..Len(sw_writes) :
                IsTurnOn(sw_writes[i]) =>
                    /\ sw_writes[i].mode # "off"
                    /\ sw_writes[i].mode = (IF sw_writes[i].seen = "none" THEN "auto"
                                            ELSE sw_writes[i].seen))
    /\ [][previous_mode' # previous_mode =>
            /\ coordinator_data' = coordinator_data
            /\ sw_writes' = sw_writes
            /\ coordinator_data.has_data /\ coordinator_data.has_port
            /\ coordinator_data.has_mode => coordinator_data.poe_mode # "off"
            /\ previous_mode' = (IF coordinator_data.has_mode
                                 THEN coordinator_data.poe_mode ELSE "auto")]_vars

\* The port was polled as "pasv24", then as "off", is_on evaluated each time,
\* and async_turn_on wrote "pasv24".
C27_Witness ==
    /\ previous_mode = "pasv24"
    /\ coordinator_data = PortWithMode("off")
    /\ sw_writes # <<>>
    /\ sw_writes[Len(sw_writes)] = Write("turn_on", "pasv24", "True", "pasv24")

(***************************************************************************)
(* Properties of restart_poe_port's manual fallback (checked under         *)
(* SpecPoERestart).                                                        *)
(***************************************************************************)
IsSetCall(e) == e.ev = "set"
SetCalls(t) == SelectSeq(tlog[t], IsSetCall)

\* The fallback's "off" write succeeded: the delay wait began.
OffWritten(t) == \E i \in 1..Len(tlog[t]) : tlog[t][i].ev = "sleep"

\* The fallback's re-enable write was sent and returned False.
ReEnableRefused(t) ==
    /\ top[t].op = "restart" /\ tpc[t] = "done" /\ tres[t] = "False"
    /\ OffWritten(t)
    /\ Len(Puts(t)) = 2

\* The fallback ran to its end and returned True.
FallbackSucceeded(t) ==
    /\ top[t].op = "restart" /\ tpc[t] = "done" /\ tres[t] = "True"
    /\ Puts(t) # <<>>

\* C28: in the manual fallback, when the "off" write succeeded and the
\* re-enable write returned False, restart_poe_port returns False after
\* exactly those two writes, and the controller is left with the "off" list;
\* whenever the fallback returns True, the last mode written, which the
\* controller holds, is the mode the port table showed before the off ("auto"
\* if the port is not in the table).
C28_FallbackLastWrite ==
    \A t \in Tasks :
        /\ ReEnableRefused(t) =>
              /\ Len(SetCalls(t)) = 2
              /\ LastEvent(t).ev = "PUT"
              /\ Puts(t)[1].mode = "off"
              /\ ctl.port_overrides = Puts(t)[1].body
              /\ EffectiveMode(ctl.port_overrides, top[t].port) = "off"
        /\ FallbackSucceeded(t) =>
              /\ Len(Puts(t)) = 2
              /\ Puts(t)[2].mode = ObservedMode(loc[t].port_table, top[t].port)
              /\ ctl.port_overrides = Puts(t)[2].body
              /\ EffectiveMode(ctl.port_overrides, top[t].port)
                    = ObservedMode(loc[t].port_table, top[t].port)

\* A port that ran with "auto" is left off: the re-enable write was refused.
C28_Witness ==
    /\ ReEnableRefused("t1")
    /\ ObservedMode(loc["t1"].port_table, top["t1"].port) = "auto"
    /\ EffectiveMode(ctl.port_overrides, top["t1"].port) = "off"

====
